---- MODULE Spec2Model ----
(***************************************************************************)
(* FeedStore (src/src/feed-store.js) and FeedDescriptor                    *)
(* (src/src/feed-descriptor.js) as a state machine.                        *)
(*                                                                         *)
(* Every `await` of the source is a point where another caller may run,    *)
(* so every asynchronous method is cut into one action per stretch of code *)
(* between two awaits.  Callers are the slots of Procs; a slot runs one    *)
(* operation at a time and is free again after Return.                     *)
(*                                                                         *)
(* The log engine (hypercore) and the trie behind IndexDB are external:    *)
(* each call into them either succeeds or fails, the failures being drawn  *)
(* nondeterministically and counted in `faults`.                           *)
(***************************************************************************)
EXTENDS Integers, Sequences, FiniteSets, TLC

\* ------------------------------------------------------------------ bounds
MaxProcs == 2
MaxOps == 4
MaxFaults == 1
MaxDesc == 4
MaxFeeds == 3
MaxKeys == 2
MaxRaceOps == 5
MaxReaders == 2
MaxFed == 2
MaxReaderOps == 3

Procs == 1..MaxProcs
DescIds == 1..MaxDesc
FeedIds == 1..MaxFeeds
Keys == 1..MaxKeys
Rids == 1..MaxReaders
Paths == {"a", "b"}
Metas == {0, 1}

\* The metadata values the callers of the main specification pass.
CallMetas == {0}

\* Store states (feed-store.js 18-21).
OPENED == "opened"
OPENING == "opening"
CLOSED == "closed"
CLOSING == "closing"

NoRec == [path |-> "", meta |-> 0]
NoDesc == [path |-> "", key |-> 0, meta |-> 0, feed |-> 0]
NoOp == [name |-> "none", path |-> "", key |-> 0, meta |-> 0]
NoEvent == [name |-> "none", d |-> 0]
NoReader == [state |-> "none", err |-> "none", filter |-> "all", feeds |-> {},
             delivered |-> {}, again |-> {}, twice |-> {}]

\* The feed streams added to the reader under test, and how many messages
\* each of them carries at most.
MaxSelFeeds == 2
MaxMsgs == 2
SelFeeds == 1..MaxSelFeeds
Kinds == {"selective", "ordered"}

\* No SelectiveReader / OrderedReader was constructed. As constructed
\* (feed-store.test.js 458-463, part_003 250-256) kind, only, differs.
NoSelective ==
    [kind |-> "none", mode |-> "free", pc |-> "idle", reading |-> FALSE, needsData |-> FALSE,
     wake |-> FALSE, cur |-> 0,
     buffer |-> [f \in SelFeeds |-> << >>],
     stream |-> [f \in SelFeeds |-> << >>],
     sent |-> [f \in SelFeeds |-> 0],
     out |-> << >>, destroyed |-> FALSE, err |-> "none", unhandled |-> FALSE]

\* The feeds a Reader is given, how long their logs grow, and the batch
\* option of the per-feed streams.
MaxBulkFeeds == 2
MaxLog == 2
Batch == 2
BulkFeeds == 1..MaxBulkFeeds

\* No Reader under test. As constructed (part_002 24-39) the feed sets are
\* empty and the sync state holds no key.
NoBulk ==
    [pc |-> "none", cohort |-> {}, pending |-> {}, valid |-> {},
     feedsToSync |-> {}, syncState |-> [f \in BulkFeeds |-> -1],
     feeds |-> {}, head |-> [f \in BulkFeeds |-> 0],
     log |-> [f \in BulkFeeds |-> 0], start |-> [f \in BulkFeeds |-> 0],
     through |-> [f \in BulkFeeds |-> << >>], out |-> << >>, synced |-> 0]

VARIABLES
    state,        \* FeedStore._state
    descriptors,  \* FeedStore._descriptors: the map's values in insertion order
    indexDB,      \* FeedStore._indexDB: "null", "open" or "closed"
    index,        \* the records stored in the trie, by key
    slock,        \* FeedStore._locker: queue of callers, head holds the mutex
    desc,         \* the FeedDescriptor objects created so far
    ndesc,        \* how many FeedDescriptor objects exist
    dlock,        \* FeedDescriptor._locker of each descriptor
    feedOpened,   \* log handle's `opened` flag
    feedClosed,   \* log handle's `closed` flag
    feedDesc,     \* log handle's descriptor back pointer (kDescriptor)
    nfeeds,       \* how many log handles the factory has returned
    pc,           \* where each caller stands in its operation
    op,           \* the operation a caller runs, with its arguments
    sub,          \* a caller's descriptor-level calls, by descriptor
    last,         \* the `lastState` local of initialize() / close()
    ret,          \* how the caller's promise settled: "ok" or an error kind
    val,          \* the value it resolved to (a log handle, 0 if none)
    budget,       \* operations the callers may still start
    faults,       \* external failures drawn so far
    emit,         \* the store event the last step emitted, NoEvent if none
    readers,      \* FeedStore._readers
    reader,       \* the Reader objects createReadStream made
    attach,       \* addFeedStream calls that await the reader's filter
    fed,          \* how often 'feed' was emitted for each log handle
    selective,    \* a SelectiveReader or OrderedReader and its feed streams
    bulk          \* a Reader with its sync state, its feed streams and their logs

storeVars == <<state, descriptors, indexDB, index, slock>>
descVars == <<desc, ndesc, dlock>>
feedVars == <<feedOpened, feedClosed, feedDesc, nfeeds>>
procVars == <<pc, op, sub, last, ret, val>>
readerVars == <<readers, reader, attach, fed, selective, bulk>>
vars == <<state, descriptors, indexDB, index, slock, desc, ndesc, dlock,
          feedOpened, feedClosed, feedDesc, nfeeds, pc, op, sub, last, ret, val,
          budget, faults, emit, readers, reader, attach, fed, selective, bulk>>

\* ----------------------------------------------------------------- helpers

\* mutexify grants the mutex in arrival order; the head of the queue holds it.
Acquire(q, p) == Append(q, p)

Holds(q, p) == q # << >> /\ Head(q) = p

ReleaseKept(q) == q

\* release() on the failure paths: feed-descriptor.js 189 and 209,
\* feed-store.js 345.
ReleaseOnError(q) == Tail(q)

\* release() on the success paths.
Release(q) == Tail(q)

OpenedNever(d) == FALSE

\* FeedDescriptor.opened (feed-descriptor.js 90-92).
Opened(d) ==
    /\ desc[d].feed # 0
    /\ feedOpened[desc[d].feed]
    /\ ~feedClosed[desc[d].feed]

\* The descriptor's state as the code exposes it: it keeps no state field, the
\* `opened` getter is all there is.
DescState(d) == IF Opened(d) THEN OPENED ELSE CLOSED

\* getDescriptors().find(fd => fd.path === path): first match in map order.
FindByPath(path) ==
    IF \E i \in 1..Len(descriptors) : desc[descriptors[i]].path = path
    THEN descriptors[CHOOSE i \in 1..Len(descriptors) :
            /\ desc[descriptors[i]].path = path
            /\ \A j \in 1..(i-1) : desc[descriptors[j]].path # path]
    ELSE 0

\* getDescriptors().find(fd => fd.key.equals(key)).
FindByKey(key) ==
    IF \E i \in 1..Len(descriptors) : desc[descriptors[i]].key = key
    THEN descriptors[CHOOSE i \in 1..Len(descriptors) :
            /\ desc[descriptors[i]].key = key
            /\ \A j \in 1..(i-1) : desc[descriptors[j]].key # key]
    ELSE 0

\* Map.set(discoveryKey, descriptor): the discovery key is a hash of the key,
\* so the entry is the one of the same key; an existing entry keeps its place.
MapSet(seq, d, D) ==
    IF \E i \in 1..Len(seq) : D[seq[i]].key = D[d].key
    THEN [i \in 1..Len(seq) |-> IF D[seq[i]].key = D[d].key THEN d ELSE seq[i]]
    ELSE Append(seq, d)

MapDeleteKept(seq, key) == seq

\* Map.delete(discoveryKey).
MapDelete(seq, key) == SelectSeq(seq, LAMBDA e : desc[e].key # key)

RECURSIVE SetAll(_, _, _, _)
SetAll(seq, D, from, to) ==
    IF from > to THEN seq ELSE SetAll(MapSet(seq, from, D), D, from + 1, to)

StoredKeys == {k \in Keys : index[k] # NoRec}

UsedKeys == StoredKeys \cup {desc[d].key : d \in 1..ndesc}

\* crypto.keyPair(): a key nobody holds yet.
FreshKey == CHOOSE k \in Keys \ UsedKeys : \A j \in Keys \ UsedKeys : k <= j

Orders(S) ==
    {o \in [1..Cardinality(S) -> S] :
        \A i, j \in 1..Cardinality(S) : i # j => o[i] # o[j]}

KeyMismatchNever(d, key) == FALSE

\* feed-store.js 284.
KeyMismatch(d, key) == d # 0 /\ key # 0 /\ key # desc[d].key

DuplicateKeyNever(d, key) == FALSE

\* feed-store.js 288.
DuplicateKey(d, key) == d = 0 /\ key # 0 /\ FindByKey(key) # 0

IsClosedOnlyClosed(s) == s = CLOSED

\* feed-store.js 514: _isOpen() throws.
IsClosed(s) == s = CLOSED \/ s = CLOSING

\* What each descriptor-level call of an operation is.
Kind(name) ==
    CASE name \in {"openFeed", "openFeeds"} -> "open"
      [] name \in {"closeFeed", "close"} -> "close"
      [] name = "deleteDescriptor" -> "delete"
      [] OTHER -> "none"

\* Operations that return the promise of their one descriptor-level call.
Single(name) == name \in {"openFeed", "closeFeed", "deleteDescriptor"}

NoSubs == [d \in DescIds |-> "-"]

Settled(p) == \A d \in DescIds : sub[p][d] \in {"-", "ok", "err"}

TypeOK ==
    /\ state \in {OPENED, OPENING, CLOSED, CLOSING}
    /\ indexDB \in {"null", "open", "closed"}
    /\ ndesc \in 0..MaxDesc
    /\ nfeeds \in 0..MaxFeeds
    /\ \A i \in 1..Len(descriptors) : descriptors[i] \in 1..ndesc
    /\ \A p \in Procs : pc[p] \in {"idle", "in_lock", "in_list", "wait", "find",
                                   "join", "cl_lock", "cl_idx", "done"}
    /\ emit.name \in {"none", "ready", "feed", "descriptor-remove", "closed"}
    /\ readers \subseteq Rids
    /\ \A r \in Rids : reader[r].state \in {"none", "rejected", "wait", "start", "live",
                                             "destroyed"}
    /\ \A h \in FeedIds : fed[h] \in 0..MaxFed
    /\ attach \subseteq Rids \X DescIds
    /\ selective.kind \in Kinds \cup {"none"}
    /\ selective.pc \in {"idle", "pass", "eval", "yield", "wait", "timer", "rejected"}
    /\ selective.cur \in 0..(MaxSelFeeds + 1)
    /\ \A f \in SelFeeds : selective.sent[f] \in 0..MaxMsgs

\* ---------------------------------------------------------------- initial

\* A store just constructed (feed-store.js 76-125) on a storage that is empty
\* or holds the record an earlier run wrote for path "a".
Init ==
    /\ state = CLOSED
    /\ descriptors = << >>
    /\ indexDB = "null"
    /\ index \in {[k \in Keys |-> NoRec],
                  [k \in Keys |-> IF k = 1 THEN [path |-> "a", meta |-> 0] ELSE NoRec]}
    /\ slock = << >>
    /\ desc = [d \in DescIds |-> NoDesc]
    /\ ndesc = 0
    /\ dlock = [d \in DescIds |-> << >>]
    /\ feedOpened = [h \in FeedIds |-> FALSE]
    /\ feedClosed = [h \in FeedIds |-> FALSE]
    /\ feedDesc = [h \in FeedIds |-> 0]
    /\ nfeeds = 0
    /\ pc = [p \in Procs |-> "idle"]
    /\ op = [p \in Procs |-> NoOp]
    /\ sub = [p \in Procs |-> NoSubs]
    /\ last = [p \in Procs |-> CLOSED]
    /\ ret = [p \in Procs |-> "none"]
    /\ val = [p \in Procs |-> 0]
    /\ emit = NoEvent
    /\ readers = {}
    /\ reader = [r \in Rids |-> NoReader]
    /\ attach = {}
    /\ fed = [h \in FeedIds |-> 0]
    /\ selective = NoSelective
    /\ bulk = NoBulk
    /\ budget = MaxOps
    /\ faults = 0

\* ------------------------------------------------- the store's own listeners

DestroyedNot(rec, e) == rec

\* Reader.destroy(err): the stream is destroyed with the first error given.
Destroyed(rec, e) ==
    IF rec.state \in {"none", "destroyed"} THEN rec
    ELSE [rec EXCEPT !.state = "destroyed", !.err = e]

\* _getFeedStreamOptions before its await (part_002 127-131): there is a
\* feed, the reader does not hold it, and the stream is not destroyed.
Attachable(r, d) ==
    /\ desc[d].feed # 0
    /\ desc[d].feed \notin reader[r].feeds
    /\ reader[r].state # "destroyed"

OnFeedNone(d) == UNCHANGED readerVars

\* The 'feed' listener (feed-store.js 111-117): addFeedStream(descriptor) on
\* every reader of the set, each up to the await of its filter.
OnFeed(d) ==
    /\ attach' = attach \cup {<<r, d>> : r \in {x \in readers : Attachable(x, d)}}
    /\ reader' = [r \in Rids |->
                    IF r \in readers /\ Attachable(r, d) /\ <<r, d>> \in attach
                    THEN [reader[r] EXCEPT !.again = @ \cup {d}]
                    ELSE reader[r]]
    /\ fed' = [fed EXCEPT ![desc[d].feed] = IF @ < MaxFed THEN @ + 1 ELSE @]
    /\ UNCHANGED <<readers, selective, bulk>>

\* The 'closed' listener (feed-store.js 119-124): every reader of the set is
\* destroyed with 'FeedStore closed' and the set is cleared.
OnClosed ==
    /\ reader' = [r \in Rids |-> IF r \in readers THEN Destroyed(reader[r], "Closed")
                                ELSE reader[r]]
    /\ readers' = {}
    /\ UNCHANGED <<attach, fed, selective, bulk>>

\* 'ready' (feed-store.js 193-195, 522-523): the _isOpen() of a read stream
\* made while the store was opening resolves.
OnReady ==
    /\ reader' = [r \in Rids |-> IF reader[r].state = "wait"
                                THEN [reader[r] EXCEPT !.state = "start"]
                                ELSE reader[r]]
    /\ UNCHANGED <<readers, attach, fed, selective, bulk>>

\* ---------------------------------------------------------- settling calls

\* The caller's promise settles.
Done(p, r, v) ==
    /\ pc' = [pc EXCEPT ![p] = "done"]
    /\ ret' = [ret EXCEPT ![p] = r]
    /\ val' = [val EXCEPT ![p] = v]

Free(p) == pc[p] \in {"idle", "done"} /\ Settled(p)

\* A caller starts an operation in the lowest free slot; what the slot's last
\* operation left behind is dropped.
Start(p, o) ==
    /\ Free(p)
    /\ \A q \in Procs : Free(q) => p <= q
    /\ budget > 0
    /\ budget' = budget - 1
    /\ op' = [op EXCEPT ![p] = o]
    /\ sub' = [sub EXCEPT ![p] = NoSubs]
    /\ last' = [last EXCEPT ![p] = CLOSED]

\* The operation goes on to its next await.
Goes(p, at) ==
    /\ pc' = [pc EXCEPT ![p] = at]
    /\ ret' = [ret EXCEPT ![p] = "none"]
    /\ val' = [val EXCEPT ![p] = 0]

Fault ==
    /\ faults < MaxFaults
    /\ faults' = faults + 1

SubDoneRejects(p, d, outcome, v) ==
    /\ sub' = [sub EXCEPT ![p][d] = "err"]
    /\ IF Single(op[p].name)
       THEN Done(p, "EngineError", v)
       ELSE UNCHANGED <<pc, ret, val>>

\* A descriptor-level call of p on d settles; openFeed, closeFeed and
\* deleteDescriptor settle with it (feed-store.js 296, 316, 343-346).
SubDone(p, d, outcome, v) ==
    /\ sub' = [sub EXCEPT ![p][d] = outcome]
    /\ IF Single(op[p].name)
       THEN Done(p, IF outcome = "ok" THEN "ok" ELSE "EngineError", v)
       ELSE UNCHANGED <<pc, ret, val>>

\* --------------------------------------------------- FeedStore.initialize

\* feed-store.js 147-149: the store is opened already.
InitializeOpened(p) ==
    /\ Start(p, [NoOp EXCEPT !.name = "initialize"])
    /\ state = OPENED
    /\ Done(p, "Opened", 0)
    /\ UNCHANGED <<storeVars, descVars, feedVars, faults>>
    /\ emit' = NoEvent
    /\ UNCHANGED readerVars

\* feed-store.js 151-155: up to `await this._locker.lock()`.
InitializeCall(p) ==
    /\ Start(p, [NoOp EXCEPT !.name = "initialize"])
    /\ state # OPENED
    /\ state' = IF state = CLOSED THEN OPENING ELSE state
    /\ slock' = Acquire(slock, p)
    /\ Goes(p, "in_lock")
    /\ UNCHANGED <<descriptors, indexDB, index, descVars, feedVars, faults>>
    /\ emit' = NoEvent
    /\ UNCHANGED readerVars

OpenedByNowNever(s) == FALSE

\* feed-store.js 159: the state is looked at again once the lock is granted.
OpenedByNow(s) == s = OPENED

\* feed-store.js 157-162: the lock is granted and the store is opened by now.
InitializeLockedOpened(p) ==
    /\ pc[p] = "in_lock"
    /\ Holds(slock, p)
    /\ OpenedByNow(state)
    /\ last' = [last EXCEPT ![p] = state]
    /\ slock' = Release(slock)
    /\ Done(p, "ok", 0)
    /\ UNCHANGED <<state, descriptors, indexDB, index, descVars, feedVars, op, sub,
                   budget, faults>>
    /\ emit' = NoEvent
    /\ UNCHANGED readerVars

\* feed-store.js 157-171: the lock is granted; up to `await this._indexDB.list`.
InitializeLocked(p) ==
    /\ pc[p] = "in_lock"
    /\ Holds(slock, p)
    /\ ~OpenedByNow(state)
    /\ last' = [last EXCEPT ![p] = state]
    /\ state' = IF state = CLOSED THEN OPENING ELSE state
    /\ indexDB' = "open"
    /\ pc' = [pc EXCEPT ![p] = "in_list"]
    /\ UNCHANGED <<descriptors, index, slock, descVars, feedVars, op, sub, ret, val,
                   budget, faults>>
    /\ emit' = NoEvent
    /\ UNCHANGED readerVars

\* FeedDescriptor constructor for a stored record (feed-store.js 174-175,
\* 444-453): the descriptors ndesc+1.. in the order the records were listed.
Loaded(ord) ==
    [d \in DescIds |->
        IF d > ndesc /\ d <= ndesc + Len(ord)
        THEN [path |-> index[ord[d - ndesc]].path, key |-> ord[d - ndesc],
              meta |-> index[ord[d - ndesc]].meta, feed |-> 0]
        ELSE desc[d]]

\* emit('ready'): every caller parked in ready() goes on (feed-store.js 193-195).
Woken(f) == [q \in Procs |-> IF f[q] = "wait" THEN "find" ELSE f[q]]

\* feed-store.js 171-180: the list arrived; a descriptor per record, `opened`,
\* 'ready', release.  The trie lists the records in an order of its own.
InitializeListed(p) ==
    /\ pc[p] = "in_list"
    /\ ndesc + Cardinality(StoredKeys) <= MaxDesc
    /\ \E ord \in Orders(StoredKeys) :
        /\ desc' = Loaded(ord)
        /\ ndesc' = ndesc + Len(ord)
        /\ descriptors' = SetAll(descriptors, Loaded(ord), ndesc + 1, ndesc + Len(ord))
    /\ state' = OPENED
    /\ slock' = Release(slock)
    /\ pc' = [Woken(pc) EXCEPT ![p] = "done"]
    /\ ret' = [ret EXCEPT ![p] = "ok"]
    /\ val' = [val EXCEPT ![p] = 0]
    /\ UNCHANGED <<indexDB, index, dlock, feedVars, op, sub, last, budget, faults>>
    /\ emit' = [name |-> "ready", d |-> 0]
    /\ OnReady

\* feed-store.js 181-185: listing failed; `lastState` is put back.
InitializeFailed(p) ==
    /\ pc[p] = "in_list"
    /\ Fault
    /\ state' = last[p]
    /\ slock' = ReleaseOnError(slock)
    /\ Done(p, "EngineError", 0)
    /\ UNCHANGED <<descriptors, indexDB, index, descVars, feedVars, op, sub, last, budget>>
    /\ emit' = NoEvent
    /\ UNCHANGED readerVars

\* ------------------------------------------------------ FeedStore._isOpen

\* The calls a caller can make that first `await this._isOpen()`.
Calls ==
    {[name |-> "openFeed", path |-> x, key |-> k, meta |-> m] :
        x \in Paths, k \in {0} \cup Keys, m \in CallMetas}
    \cup {[NoOp EXCEPT !.name = n, !.path = x] :
            n \in {"closeFeed", "deleteDescriptor"}, x \in Paths}
    \cup {[NoOp EXCEPT !.name = "openFeeds", !.path = "*"]}

\* feed-store.js 514-516: closed or closing, the call is rejected.
CallClosed(p, C) ==
    /\ IsClosed(state)
    /\ \E o \in C : Start(p, o)
    /\ Done(p, "Closed", 0)
    /\ UNCHANGED <<storeVars, descVars, feedVars, faults>>
    /\ emit' = NoEvent
    /\ UNCHANGED readerVars

\* feed-store.js 518-520: opened, the call goes on after the await.
CallOpened(p, C) ==
    /\ ~IsClosed(state)
    /\ state = OPENED
    /\ \E o \in C : Start(p, o)
    /\ Goes(p, "find")
    /\ UNCHANGED <<storeVars, descVars, feedVars, faults>>
    /\ emit' = NoEvent
    /\ UNCHANGED readerVars

\* feed-store.js 522-523, 188-196: opening, the call parks until 'ready'.
CallOpening(p, C) ==
    /\ ~IsClosed(state)
    /\ state # OPENED
    /\ \E o \in C : Start(p, o)
    /\ Goes(p, "wait")
    /\ UNCHANGED <<storeVars, descVars, feedVars, faults>>
    /\ emit' = NoEvent
    /\ UNCHANGED readerVars

\* ----------------------------------------------------- FeedStore.openFeed

\* feed-store.js 284-286.
OpenFeedKeyMismatch(p) ==
    /\ pc[p] = "find"
    /\ op[p].name = "openFeed"
    /\ KeyMismatch(FindByPath(op[p].path), op[p].key)
    /\ Done(p, "KeyMismatch", 0)
    /\ UNCHANGED <<storeVars, descVars, feedVars, op, sub, last, budget, faults>>
    /\ emit' = NoEvent
    /\ UNCHANGED readerVars

\* feed-store.js 288-290.
OpenFeedDuplicateKey(p) ==
    /\ pc[p] = "find"
    /\ op[p].name = "openFeed"
    /\ ~KeyMismatch(FindByPath(op[p].path), op[p].key)
    /\ DuplicateKey(FindByPath(op[p].path), op[p].key)
    /\ Done(p, "DuplicateKey", 0)
    /\ UNCHANGED <<storeVars, descVars, feedVars, op, sub, last, budget, faults>>
    /\ emit' = NoEvent
    /\ UNCHANGED readerVars

\* feed-store.js 296 on a descriptor the map holds: descriptor.open() up to
\* `await this.lock()` (feed-descriptor.js 164).
OpenFeedExisting(p) ==
    /\ pc[p] = "find"
    /\ op[p].name = "openFeed"
    /\ FindByPath(op[p].path) # 0
    /\ ~KeyMismatch(FindByPath(op[p].path), op[p].key)
    /\ LET d == FindByPath(op[p].path) IN
        /\ sub' = [sub EXCEPT ![p][d] = "lock"]
        /\ dlock' = [dlock EXCEPT ![d] = Acquire(dlock[d], p)]
    /\ pc' = [pc EXCEPT ![p] = "join"]
    /\ UNCHANGED <<storeVars, desc, ndesc, feedVars, op, last, ret, val, budget, faults>>
    /\ emit' = NoEvent
    /\ UNCHANGED readerVars

\* feed-store.js 292-296, 439-458: no descriptor for the path; one is made
\* (feed-descriptor.js 56-60 draws a key pair when none is given), put in the
\* map, and opened.
OpenFeedCreate(p) ==
    /\ pc[p] = "find"
    /\ op[p].name = "openFeed"
    /\ FindByPath(op[p].path) = 0
    /\ ~DuplicateKey(0, op[p].key)
    /\ ndesc < MaxDesc
    /\ op[p].key = 0 => Keys \ UsedKeys # {}
    /\ LET d == ndesc + 1
           k == IF op[p].key = 0 THEN FreshKey ELSE op[p].key
           D == [desc EXCEPT ![d] = [path |-> op[p].path, key |-> k,
                                     meta |-> op[p].meta, feed |-> 0]]
       IN
        /\ desc' = D
        /\ ndesc' = d
        /\ descriptors' = MapSet(descriptors, d, D)
        /\ sub' = [sub EXCEPT ![p][d] = "lock"]
        /\ dlock' = [dlock EXCEPT ![d] = Acquire(dlock[d], p)]
    /\ pc' = [pc EXCEPT ![p] = "join"]
    /\ UNCHANGED <<state, indexDB, index, slock, feedVars, op, last, ret, val,
                   budget, faults>>
    /\ emit' = NoEvent
    /\ UNCHANGED readerVars

\* ---------------------------------------------------- FeedStore.closeFeed

\* feed-store.js 312-314.
CloseFeedNotFound(p) ==
    /\ pc[p] = "find"
    /\ op[p].name = "closeFeed"
    /\ FindByPath(op[p].path) = 0
    /\ Done(p, "NotFound", 0)
    /\ UNCHANGED <<storeVars, descVars, feedVars, op, sub, last, budget, faults>>
    /\ emit' = NoEvent
    /\ UNCHANGED readerVars

\* feed-store.js 316: descriptor.close() up to `await this.lock()`
\* (feed-descriptor.js 200).
CloseFeedFound(p) ==
    /\ pc[p] = "find"
    /\ op[p].name = "closeFeed"
    /\ FindByPath(op[p].path) # 0
    /\ LET d == FindByPath(op[p].path) IN
        /\ sub' = [sub EXCEPT ![p][d] = "lock"]
        /\ dlock' = [dlock EXCEPT ![d] = Acquire(dlock[d], p)]
    /\ pc' = [pc EXCEPT ![p] = "join"]
    /\ UNCHANGED <<storeVars, desc, ndesc, feedVars, op, last, ret, val, budget, faults>>
    /\ emit' = NoEvent
    /\ UNCHANGED readerVars

\* --------------------------------------------- FeedStore.deleteDescriptor

\* feed-store.js 332-347 with no descriptor for the path: `descriptor.lock()`
\* throws on undefined, and so does the `release()` of the catch block.
DeleteNotFound(p) ==
    /\ pc[p] = "find"
    /\ op[p].name = "deleteDescriptor"
    /\ FindByPath(op[p].path) = 0
    /\ Done(p, "TypeError", 0)
    /\ UNCHANGED <<storeVars, descVars, feedVars, op, sub, last, budget, faults>>
    /\ emit' = NoEvent
    /\ UNCHANGED readerVars

\* feed-store.js 332-336: up to `await descriptor.lock()`.
DeleteFound(p) ==
    /\ pc[p] = "find"
    /\ op[p].name = "deleteDescriptor"
    /\ FindByPath(op[p].path) # 0
    /\ LET d == FindByPath(op[p].path) IN
        /\ sub' = [sub EXCEPT ![p][d] = "lock"]
        /\ dlock' = [dlock EXCEPT ![d] = Acquire(dlock[d], p)]
    /\ pc' = [pc EXCEPT ![p] = "join"]
    /\ UNCHANGED <<storeVars, desc, ndesc, feedVars, op, last, ret, val, budget, faults>>
    /\ emit' = NoEvent
    /\ UNCHANGED readerVars

\* ---------------------------------------------------- FeedStore.openFeeds

\* The descriptors the callback of openFeeds accepts: those of one path, or all.
Accepted(x) ==
    {descriptors[i] : i \in {j \in 1..Len(descriptors) :
                                x = "*" \/ desc[descriptors[j]].path = x}}

\* feed-store.js 253-256: descriptor.open() on every accepted descriptor, each
\* up to its `await this.lock()`.
OpenFeedsFind(p) ==
    /\ pc[p] = "find"
    /\ op[p].name = "openFeeds"
    /\ LET S == Accepted(op[p].path) IN
        /\ sub' = [sub EXCEPT ![p] = [d \in DescIds |-> IF d \in S THEN "lock" ELSE "-"]]
        /\ dlock' = [d \in DescIds |-> IF d \in S THEN Acquire(dlock[d], p) ELSE dlock[d]]
    /\ pc' = [pc EXCEPT ![p] = "join"]
    /\ UNCHANGED <<storeVars, desc, ndesc, feedVars, op, last, ret, val, budget, faults>>
    /\ emit' = NoEvent
    /\ UNCHANGED readerVars

\* feed-store.js 256: Promise.all settles, rejected by the first failure.
OpenFeedsJoin(p) ==
    /\ pc[p] = "join"
    /\ op[p].name = "openFeeds"
    /\ \/ /\ \E d \in DescIds : sub[p][d] = "err"
          /\ Done(p, "EngineError", 0)
       \/ /\ \A d \in DescIds : sub[p][d] \in {"-", "ok"}
          /\ Done(p, "ok", 0)
    /\ UNCHANGED <<storeVars, descVars, feedVars, op, sub, last, budget, faults>>
    /\ emit' = NoEvent
    /\ UNCHANGED readerVars

\* ---------------------------------------------------- FeedDescriptor.open

IndexUp == indexDB = "open"

\* A call into the trie fails: always on a closed trie, else by a drawn fault.
IndexFails ==
    \/ /\ ~IndexUp
       /\ UNCHANGED faults
    \/ /\ IndexUp
       /\ Fault

\* What follows a successful ready(): the descriptor fires its 'opened'
\* watchers and awaits them before it releases; the store's watcher
\* (feed-store.js 463-477) starts with _persistDescriptor's get.
AfterReady == "pget"

FeedUnset(d, h) == 0

\* feed-descriptor.js 172: the handle the factory returned is kept in _feed.
FeedSet(d, h) == h

\* feed-descriptor.js 166-169: the lock is granted and the feed is open.
OpenLockedOpened(p, d) ==
    /\ sub[p][d] = "lock"
    /\ Kind(op[p].name) = "open"
    /\ Holds(dlock[d], p)
    /\ Opened(d)
    /\ dlock' = [dlock EXCEPT ![d] = Release(dlock[d])]
    /\ SubDone(p, d, "ok", desc[d].feed)
    /\ UNCHANGED <<storeVars, desc, ndesc, feedVars, op, last, budget, faults>>
    /\ emit' = NoEvent
    /\ UNCHANGED readerVars

\* feed-descriptor.js 171-183: the factory returns a handle; up to the await
\* of its ready().
OpenConstruct(p, d) ==
    /\ sub[p][d] = "lock"
    /\ Kind(op[p].name) = "open"
    /\ Holds(dlock[d], p)
    /\ ~Opened(d)
    /\ nfeeds < MaxFeeds
    /\ nfeeds' = nfeeds + 1
    /\ desc' = [desc EXCEPT ![d].feed = FeedSet(d, nfeeds + 1)]
    /\ feedDesc' = [feedDesc EXCEPT ![nfeeds + 1] = d]
    /\ sub' = [sub EXCEPT ![p][d] = "ready"]
    /\ UNCHANGED <<storeVars, ndesc, dlock, feedOpened, feedClosed, pc, op, last,
                   ret, val, budget, faults>>
    /\ emit' = NoEvent
    /\ UNCHANGED readerVars

\* feed-descriptor.js 172, 188-190: the factory throws.
OpenFactoryThrows(p, d) ==
    /\ sub[p][d] = "lock"
    /\ Kind(op[p].name) = "open"
    /\ Holds(dlock[d], p)
    /\ ~Opened(d)
    /\ Fault
    /\ dlock' = [dlock EXCEPT ![d] = ReleaseOnError(dlock[d])]
    /\ SubDone(p, d, "err", 0)
    /\ UNCHANGED <<storeVars, desc, ndesc, feedVars, op, last, budget>>
    /\ emit' = NoEvent
    /\ UNCHANGED readerVars

\* feed-descriptor.js 183: the log is ready.
OpenReady(p, d) ==
    /\ sub[p][d] = "ready"
    /\ feedOpened' = [feedOpened EXCEPT ![desc[d].feed] = TRUE]
    /\ sub' = [sub EXCEPT ![p][d] = AfterReady]
    /\ UNCHANGED <<storeVars, descVars, feedClosed, feedDesc, nfeeds, pc, op, last,
                   ret, val, budget, faults>>
    /\ emit' = NoEvent
    /\ UNCHANGED readerVars

\* feed-descriptor.js 183, 188-190: ready() fails.
OpenReadyFails(p, d) ==
    /\ sub[p][d] = "ready"
    /\ Fault
    /\ dlock' = [dlock EXCEPT ![d] = ReleaseOnError(dlock[d])]
    /\ SubDone(p, d, "err", 0)
    /\ UNCHANGED <<storeVars, desc, ndesc, feedVars, op, last, budget>>
    /\ emit' = NoEvent
    /\ UNCHANGED readerVars

NeedsPutNever(old, d) == FALSE

NeedsPutAlways(old, d) == TRUE

\* feed-store.js 508: the record is written when none is stored or the stored
\* metadata differs.
NeedsPut(old, d) == old = NoRec \/ old.meta # desc[d].meta

\* feed-store.js 496-508, then 473-476 and the release of open(): the stored
\* record arrived.
PersistGet(p, d) ==
    /\ sub[p][d] = "pget"
    /\ IndexUp
    /\ IF NeedsPut(index[desc[d].key], d)
       THEN /\ sub' = [sub EXCEPT ![p][d] = "pput"]
            /\ emit' = NoEvent
            /\ UNCHANGED <<dlock, pc, ret, val, readerVars>>
       ELSE /\ dlock' = [dlock EXCEPT ![d] = Release(dlock[d])]
            /\ SubDone(p, d, "ok", desc[d].feed)
            /\ emit' = [name |-> "feed", d |-> d]
            /\ OnFeed(d)
    /\ UNCHANGED <<storeVars, desc, ndesc, feedVars, op, last, budget, faults>>

\* feed-store.js 509, then 473-476 and the release of open(): the record is
\* written.
PersistPut(p, d) ==
    /\ sub[p][d] = "pput"
    /\ IndexUp
    /\ index' = [index EXCEPT ![desc[d].key] =
                    [path |-> desc[d].path, meta |-> desc[d].meta]]
    /\ dlock' = [dlock EXCEPT ![d] = Release(dlock[d])]
    /\ SubDone(p, d, "ok", desc[d].feed)
    /\ UNCHANGED <<state, descriptors, indexDB, slock, desc, ndesc, feedVars, op,
                   last, budget, faults>>
    /\ emit' = [name |-> "feed", d |-> d]
    /\ OnFeed(d)

\* feed-store.js 498 or 509 fails: the watcher rejects, open() releases and
\* rethrows (feed-descriptor.js 188-190).
PersistFails(p, d) ==
    /\ sub[p][d] \in {"pget", "pput"}
    /\ IndexFails
    /\ dlock' = [dlock EXCEPT ![d] = ReleaseOnError(dlock[d])]
    /\ SubDone(p, d, "err", 0)
    /\ UNCHANGED <<storeVars, desc, ndesc, feedVars, op, last, budget>>
    /\ emit' = NoEvent
    /\ UNCHANGED readerVars

\* --------------------------------------------------- FeedDescriptor.close

\* feed-descriptor.js 200-207: the lock is granted; an open feed is asked to
\* close, anything else is left as it is.
CloseSubLocked(p, d) ==
    /\ sub[p][d] = "lock"
    /\ Kind(op[p].name) = "close"
    /\ Holds(dlock[d], p)
    /\ IF Opened(d)
       THEN /\ sub' = [sub EXCEPT ![p][d] = "closing"]
            /\ UNCHANGED <<dlock, pc, ret, val>>
       ELSE /\ dlock' = [dlock EXCEPT ![d] = Release(dlock[d])]
            /\ SubDone(p, d, "ok", 0)
    /\ UNCHANGED <<storeVars, desc, ndesc, feedVars, op, last, budget, faults>>
    /\ emit' = NoEvent
    /\ UNCHANGED readerVars

LogClosedNot(c, h) == c

\* The log's close() called back without an error (feed-descriptor.js 204): the
\* handle counts as closed.
LogClosed(c, h) == [c EXCEPT ![h] = TRUE]

\* feed-descriptor.js 204-207: the log closed.
CloseSubDone(p, d) ==
    /\ sub[p][d] = "closing"
    /\ feedClosed' = LogClosed(feedClosed, desc[d].feed)
    /\ dlock' = [dlock EXCEPT ![d] = Release(dlock[d])]
    /\ SubDone(p, d, "ok", 0)
    /\ UNCHANGED <<storeVars, desc, ndesc, feedOpened, feedDesc, nfeeds, op, last,
                   budget, faults>>
    /\ emit' = NoEvent
    /\ UNCHANGED readerVars

\* feed-descriptor.js 204, 208-211: the log's close fails; whether the log
\* counts as closed afterwards is the engine's business.
CloseSubFails(p, d) ==
    /\ sub[p][d] = "closing"
    /\ Fault
    /\ \E c \in BOOLEAN : feedClosed' = [feedClosed EXCEPT ![desc[d].feed] = c]
    /\ dlock' = [dlock EXCEPT ![d] = ReleaseOnError(dlock[d])]
    /\ SubDone(p, d, "err", 0)
    /\ UNCHANGED <<storeVars, desc, ndesc, feedOpened, feedDesc, nfeeds, op, last, budget>>
    /\ emit' = NoEvent
    /\ UNCHANGED readerVars

\* --------------------------------- FeedStore.deleteDescriptor, under lock

\* feed-store.js 336-338: the lock is granted; up to the await of the delete.
DeleteLocked(p, d) ==
    /\ sub[p][d] = "lock"
    /\ Kind(op[p].name) = "delete"
    /\ Holds(dlock[d], p)
    /\ sub' = [sub EXCEPT ![p][d] = "deleting"]
    /\ UNCHANGED <<storeVars, descVars, feedVars, pc, op, last, ret, val, budget, faults>>
    /\ emit' = NoEvent
    /\ UNCHANGED readerVars

\* feed-store.js 338-343: the record is gone; the map entry goes, release.
DeleteDone(p, d) ==
    /\ sub[p][d] = "deleting"
    /\ IndexUp
    /\ index' = [index EXCEPT ![desc[d].key] = NoRec]
    /\ descriptors' = MapDelete(descriptors, desc[d].key)
    /\ dlock' = [dlock EXCEPT ![d] = Release(dlock[d])]
    /\ SubDone(p, d, "ok", 0)
    /\ UNCHANGED <<state, indexDB, slock, desc, ndesc, feedVars, op, last, budget, faults>>
    /\ emit' = [name |-> "descriptor-remove", d |-> d]
    /\ UNCHANGED readerVars

\* feed-store.js 338, 344-347: the delete fails.
DeleteFails(p, d) ==
    /\ sub[p][d] = "deleting"
    /\ IndexFails
    /\ dlock' = [dlock EXCEPT ![d] = ReleaseOnError(dlock[d])]
    /\ SubDone(p, d, "err", 0)
    /\ UNCHANGED <<storeVars, desc, ndesc, feedVars, op, last, budget>>
    /\ emit' = NoEvent
    /\ UNCHANGED readerVars

\* -------------------------------------------------------- FeedStore.close

\* feed-store.js 356-358.
CloseClosed(p) ==
    /\ Start(p, [NoOp EXCEPT !.name = "close"])
    /\ state = CLOSED
    /\ Done(p, "Closed", 0)
    /\ UNCHANGED <<storeVars, descVars, feedVars, faults>>
    /\ emit' = NoEvent
    /\ UNCHANGED readerVars

\* feed-store.js 360-364: up to `await this._locker.lock()`.
CloseCall(p) ==
    /\ Start(p, [NoOp EXCEPT !.name = "close"])
    /\ state # CLOSED
    /\ state' = IF state = OPENED THEN CLOSING ELSE state
    /\ slock' = Acquire(slock, p)
    /\ Goes(p, "cl_lock")
    /\ UNCHANGED <<descriptors, indexDB, index, descVars, feedVars, faults>>
    /\ emit' = NoEvent
    /\ UNCHANGED readerVars

\* feed-store.js 366-371: the lock is granted and the store is closed by now.
CloseLockedClosed(p) ==
    /\ pc[p] = "cl_lock"
    /\ Holds(slock, p)
    /\ state = CLOSED
    /\ last' = [last EXCEPT ![p] = state]
    /\ slock' = Release(slock)
    /\ Done(p, "ok", 0)
    /\ UNCHANGED <<state, descriptors, indexDB, index, descVars, feedVars, op, sub,
                   budget, faults>>
    /\ emit' = NoEvent
    /\ UNCHANGED readerVars

\* feed-store.js 366-381: the lock is granted; close() is called on every
\* descriptor of the map, each up to its `await this.lock()`.
CloseLocked(p) ==
    /\ pc[p] = "cl_lock"
    /\ Holds(slock, p)
    /\ state # CLOSED
    /\ last' = [last EXCEPT ![p] = state]
    /\ state' = IF state = OPENED THEN CLOSING ELSE state
    /\ LET S == Accepted("*") IN
        /\ sub' = [sub EXCEPT ![p] = [d \in DescIds |-> IF d \in S THEN "lock" ELSE "-"]]
        /\ dlock' = [d \in DescIds |-> IF d \in S THEN Acquire(dlock[d], p) ELSE dlock[d]]
    /\ pc' = [pc EXCEPT ![p] = "join"]
    /\ UNCHANGED <<descriptors, indexDB, index, slock, desc, ndesc, feedVars, op,
                   ret, val, budget, faults>>
    /\ emit' = NoEvent
    /\ UNCHANGED readerVars

\* feed-store.js 378-381, 391-395: Promise.all is rejected by the first close
\* that fails; `lastState` is put back.
CloseJoinRejected(p) ==
    /\ pc[p] = "join"
    /\ op[p].name = "close"
    /\ \E d \in DescIds : sub[p][d] = "err"
    /\ state' = last[p]
    /\ slock' = ReleaseOnError(slock)
    /\ Done(p, "EngineError", 0)
    /\ UNCHANGED <<descriptors, indexDB, index, descVars, feedVars, op, sub, last,
                   budget, faults>>
    /\ emit' = NoEvent
    /\ UNCHANGED readerVars

\* feed-store.js 378-385: every close succeeded; the map is cleared; up to the
\* await of the trie's close.
CloseJoinResolved(p) ==
    /\ pc[p] = "join"
    /\ op[p].name = "close"
    /\ \A d \in DescIds : sub[p][d] \in {"-", "ok"}
    /\ descriptors' = << >>
    /\ pc' = [pc EXCEPT ![p] = "cl_idx"]
    /\ UNCHANGED <<state, indexDB, index, slock, descVars, feedVars, op, sub, last,
                   ret, val, budget, faults>>
    /\ emit' = NoEvent
    /\ UNCHANGED readerVars

\* feed-store.js 385-390: the trie closed; `closed`, 'closed', release.
CloseIndexClosed(p) ==
    /\ pc[p] = "cl_idx"
    /\ indexDB' = "closed"
    /\ state' = CLOSED
    /\ slock' = Release(slock)
    /\ Done(p, "ok", 0)
    /\ UNCHANGED <<descriptors, index, descVars, feedVars, op, sub, last, budget, faults>>
    /\ emit' = [name |-> "closed", d |-> 0]
    /\ OnClosed

\* feed-store.js 385, 391-395: the trie's close fails; `lastState` is put back.
CloseIndexFails(p) ==
    /\ pc[p] = "cl_idx"
    /\ Fault
    /\ state' = last[p]
    /\ slock' = ReleaseOnError(slock)
    /\ Done(p, "EngineError", 0)
    /\ UNCHANGED <<descriptors, indexDB, index, descVars, feedVars, op, sub, last, budget>>
    /\ emit' = NoEvent
    /\ UNCHANGED readerVars

\* ------------------------------------------------------- the state machine

StoreStep(p) ==
    \/ InitializeOpened(p)
    \/ InitializeCall(p)
    \/ InitializeLockedOpened(p)
    \/ InitializeLocked(p)
    \/ InitializeListed(p)
    \/ InitializeFailed(p)
    \/ CallClosed(p, Calls)
    \/ CallOpened(p, Calls)
    \/ CallOpening(p, Calls)
    \/ OpenFeedKeyMismatch(p)
    \/ OpenFeedDuplicateKey(p)
    \/ OpenFeedExisting(p)
    \/ OpenFeedCreate(p)
    \/ CloseFeedNotFound(p)
    \/ CloseFeedFound(p)
    \/ DeleteNotFound(p)
    \/ DeleteFound(p)
    \/ OpenFeedsFind(p)
    \/ OpenFeedsJoin(p)
    \/ CloseClosed(p)
    \/ CloseCall(p)
    \/ CloseLockedClosed(p)
    \/ CloseLocked(p)
    \/ CloseJoinRejected(p)
    \/ CloseJoinResolved(p)
    \/ CloseIndexClosed(p)
    \/ CloseIndexFails(p)

DescStep(p, d) ==
    \/ OpenLockedOpened(p, d)
    \/ OpenConstruct(p, d)
    \/ OpenFactoryThrows(p, d)
    \/ OpenReady(p, d)
    \/ OpenReadyFails(p, d)
    \/ PersistGet(p, d)
    \/ PersistPut(p, d)
    \/ PersistFails(p, d)
    \/ CloseSubLocked(p, d)
    \/ CloseSubDone(p, d)
    \/ CloseSubFails(p, d)
    \/ DeleteLocked(p, d)
    \/ DeleteDone(p, d)
    \/ DeleteFails(p, d)

Next ==
    \/ \E p \in Procs : StoreStep(p)
    \/ \E p \in Procs, d \in DescIds : DescStep(p, d)

Spec == Init /\ [][Next]_vars

\* ------------------------------------------- concurrent openFeed, no faults

\* openFeed(path, {metadata}) with no key.
OpenCalls ==
    {[name |-> "openFeed", path |-> x, key |-> 0, meta |-> m] :
        x \in Paths, m \in Metas}

\* An opened store, as initialize() leaves it on a storage that is empty or
\* holds the record of path "a": the record's descriptor is in the map, its
\* feed not opened.
InitOpened ==
    /\ state = OPENED
    /\ indexDB = "open"
    /\ \/ /\ index = [k \in Keys |-> NoRec]
          /\ descriptors = << >>
          /\ desc = [d \in DescIds |-> NoDesc]
          /\ ndesc = 0
       \/ /\ index = [k \in Keys |-> IF k = 1 THEN [path |-> "a", meta |-> 0] ELSE NoRec]
          /\ descriptors = <<1>>
          /\ desc = [d \in DescIds |->
                        IF d = 1 THEN [path |-> "a", key |-> 1, meta |-> 0, feed |-> 0]
                        ELSE NoDesc]
          /\ ndesc = 1
    /\ slock = << >>
    /\ dlock = [d \in DescIds |-> << >>]
    /\ feedOpened = [h \in FeedIds |-> FALSE]
    /\ feedClosed = [h \in FeedIds |-> FALSE]
    /\ feedDesc = [h \in FeedIds |-> 0]
    /\ nfeeds = 0
    /\ pc = [p \in Procs |-> "idle"]
    /\ op = [p \in Procs |-> NoOp]
    /\ sub = [p \in Procs |-> NoSubs]
    /\ last = [p \in Procs |-> CLOSED]
    /\ ret = [p \in Procs |-> "none"]
    /\ val = [p \in Procs |-> 0]
    /\ emit = NoEvent
    /\ readers = {}
    /\ reader = [r \in Rids |-> NoReader]
    /\ attach = {}
    /\ fed = [h \in FeedIds |-> 0]
    /\ selective = NoSelective
    /\ bulk = NoBulk
    /\ faults = 0

InitOpenFeed ==
    /\ InitOpened
    /\ budget = MaxOps

\* Callers that only call openFeed, on a log engine and a trie that work.
NextOpenFeed ==
    \/ \E p \in Procs :
        \/ CallOpened(p, OpenCalls)
        \/ OpenFeedExisting(p)
        \/ OpenFeedCreate(p)
    \/ \E p \in Procs, d \in DescIds :
        \/ OpenLockedOpened(p, d)
        \/ OpenConstruct(p, d)
        \/ OpenReady(p, d)
        \/ PersistGet(p, d)
        \/ PersistPut(p, d)

SpecOpenFeed == InitOpenFeed /\ [][NextOpenFeed]_vars

\* ---------------------------- delete racing open, then a reload, no faults

RaceCalls ==
    {[name |-> "openFeed", path |-> "a", key |-> 0, meta |-> 0],
     [NoOp EXCEPT !.name = "deleteDescriptor", !.path = "a"]}

InitRace ==
    /\ InitOpened
    /\ budget = MaxRaceOps

\* A caller whose `await this._isOpen()` has resolved on an opened store: its
\* continuation is a promise job, and promise jobs run before any completion
\* of storage or trie I/O is delivered.
Resumed == \E p \in Procs : pc[p] = "find"

\* Callers that open and delete path "a" and close and initialize the store,
\* on a log engine and a trie that work. Calls start at any time; a resumed
\* caller goes on before any lock is granted or I/O completes.
NextRace ==
    \/ \E p \in Procs :
        \/ InitializeOpened(p)
        \/ InitializeCall(p)
        \/ CallClosed(p, RaceCalls)
        \/ CallOpened(p, RaceCalls)
        \/ CallOpening(p, RaceCalls)
        \/ CloseClosed(p)
        \/ CloseCall(p)
        \/ OpenFeedExisting(p)
        \/ OpenFeedCreate(p)
        \/ DeleteNotFound(p)
        \/ DeleteFound(p)
    \/ \E p \in Procs :
        \/ ~Resumed /\ InitializeLockedOpened(p)
        \/ ~Resumed /\ InitializeLocked(p)
        \/ ~Resumed /\ InitializeListed(p)
        \/ ~Resumed /\ CloseLockedClosed(p)
        \/ ~Resumed /\ CloseLocked(p)
        \/ ~Resumed /\ CloseJoinResolved(p)
        \/ ~Resumed /\ CloseIndexClosed(p)
    \/ \E p \in Procs, d \in DescIds :
        \/ ~Resumed /\ OpenLockedOpened(p, d)
        \/ ~Resumed /\ OpenConstruct(p, d)
        \/ ~Resumed /\ OpenReady(p, d)
        \/ ~Resumed /\ PersistGet(p, d)
        \/ ~Resumed /\ PersistPut(p, d)
        \/ ~Resumed /\ PersistFails(p, d)
        \/ ~Resumed /\ CloseSubLocked(p, d)
        \/ ~Resumed /\ CloseSubDone(p, d)
        \/ ~Resumed /\ DeleteLocked(p, d)
        \/ ~Resumed /\ DeleteDone(p, d)
        \/ ~Resumed /\ DeleteFails(p, d)

SpecRace == InitRace /\ [][NextRace]_vars

\* ------------------------------------------ concurrent initialize, no faults

\* What the trie of a storage can hold: at most one record per path.
Stores ==
    {f \in [Keys -> {NoRec} \cup [path : Paths, meta : Metas]] :
        \A j, k \in Keys : (j # k /\ f[j] # NoRec /\ f[k] # NoRec) => f[j].path # f[k].path}

InitInitialize ==
    /\ state = CLOSED
    /\ descriptors = << >>
    /\ indexDB = "null"
    /\ index \in Stores
    /\ slock = << >>
    /\ desc = [d \in DescIds |-> NoDesc]
    /\ ndesc = 0
    /\ dlock = [d \in DescIds |-> << >>]
    /\ feedOpened = [h \in FeedIds |-> FALSE]
    /\ feedClosed = [h \in FeedIds |-> FALSE]
    /\ feedDesc = [h \in FeedIds |-> 0]
    /\ nfeeds = 0
    /\ pc = [p \in Procs |-> "idle"]
    /\ op = [p \in Procs |-> NoOp]
    /\ sub = [p \in Procs |-> NoSubs]
    /\ last = [p \in Procs |-> CLOSED]
    /\ ret = [p \in Procs |-> "none"]
    /\ val = [p \in Procs |-> 0]
    /\ emit = NoEvent
    /\ readers = {}
    /\ reader = [r \in Rids |-> NoReader]
    /\ attach = {}
    /\ fed = [h \in FeedIds |-> 0]
    /\ selective = NoSelective
    /\ bulk = NoBulk
    /\ budget = MaxOps
    /\ faults = 0

\* Callers that only call initialize, on a trie that works.
NextInitialize ==
    \E p \in Procs :
        \/ InitializeOpened(p)
        \/ InitializeCall(p)
        \/ InitializeLockedOpened(p)
        \/ InitializeLocked(p)
        \/ InitializeListed(p)

SpecInitialize == InitInitialize /\ [][NextInitialize]_vars

\* ----------------------------------- open, close and reload, no faults

InitReopen ==
    /\ InitOpened
    /\ budget = MaxOps

\* Callers that open feeds with metadata, close the store and initialize it
\* again, on a log engine and a trie that work. Calls start at any time; a
\* resumed caller goes on before any lock is granted or I/O completes.
NextReopen ==
    \/ \E p \in Procs :
        \/ InitializeOpened(p)
        \/ InitializeCall(p)
        \/ CallClosed(p, OpenCalls)
        \/ CallOpened(p, OpenCalls)
        \/ CallOpening(p, OpenCalls)
        \/ CloseClosed(p)
        \/ CloseCall(p)
        \/ OpenFeedExisting(p)
        \/ OpenFeedCreate(p)
    \/ \E p \in Procs :
        \/ ~Resumed /\ InitializeLockedOpened(p)
        \/ ~Resumed /\ InitializeLocked(p)
        \/ ~Resumed /\ InitializeListed(p)
        \/ ~Resumed /\ CloseLockedClosed(p)
        \/ ~Resumed /\ CloseLocked(p)
        \/ ~Resumed /\ CloseJoinResolved(p)
        \/ ~Resumed /\ CloseIndexClosed(p)
    \/ \E p \in Procs, d \in DescIds :
        \/ ~Resumed /\ OpenLockedOpened(p, d)
        \/ ~Resumed /\ OpenConstruct(p, d)
        \/ ~Resumed /\ OpenReady(p, d)
        \/ ~Resumed /\ PersistGet(p, d)
        \/ ~Resumed /\ PersistPut(p, d)
        \/ ~Resumed /\ CloseSubLocked(p, d)
        \/ ~Resumed /\ CloseSubDone(p, d)

SpecReopen == InitReopen /\ [][NextReopen]_vars

\* ------------------------------- every operation, promise jobs run first

\* openFeed with no key on both paths, closeFeed and deleteDescriptor on path
\* "a", and openFeeds on every descriptor.
OrderedCalls ==
    {[name |-> "openFeed", path |-> x, key |-> 0, meta |-> 0] : x \in Paths}
    \cup {[NoOp EXCEPT !.name = n, !.path = "a"] : n \in {"closeFeed", "deleteDescriptor"}}
    \cup {[NoOp EXCEPT !.name = "openFeeds", !.path = "*"]}

InitOrdered ==
    /\ InitOpened
    /\ budget = MaxOps

\* The operations of the store on an opened store, with failing log and trie
\* calls. Calls start at any time; a resumed caller goes on before any lock
\* is granted or I/O completes.
NextOrdered ==
    \/ \E p \in Procs :
        \/ InitializeOpened(p)
        \/ InitializeCall(p)
        \/ CallClosed(p, OrderedCalls)
        \/ CallOpened(p, OrderedCalls)
        \/ CallOpening(p, OrderedCalls)
        \/ CloseClosed(p)
        \/ CloseCall(p)
        \/ OpenFeedExisting(p)
        \/ OpenFeedCreate(p)
        \/ CloseFeedNotFound(p)
        \/ CloseFeedFound(p)
        \/ DeleteNotFound(p)
        \/ DeleteFound(p)
        \/ OpenFeedsFind(p)
    \/ \E p \in Procs :
        \/ ~Resumed /\ InitializeLockedOpened(p)
        \/ ~Resumed /\ InitializeLocked(p)
        \/ ~Resumed /\ InitializeListed(p)
        \/ ~Resumed /\ InitializeFailed(p)
        \/ ~Resumed /\ OpenFeedsJoin(p)
        \/ ~Resumed /\ CloseLockedClosed(p)
        \/ ~Resumed /\ CloseLocked(p)
        \/ ~Resumed /\ CloseJoinRejected(p)
        \/ ~Resumed /\ CloseJoinResolved(p)
        \/ ~Resumed /\ CloseIndexClosed(p)
        \/ ~Resumed /\ CloseIndexFails(p)
    \/ \E p \in Procs, d \in DescIds :
        \/ ~Resumed /\ OpenLockedOpened(p, d)
        \/ ~Resumed /\ OpenConstruct(p, d)
        \/ ~Resumed /\ OpenFactoryThrows(p, d)
        \/ ~Resumed /\ OpenReady(p, d)
        \/ ~Resumed /\ OpenReadyFails(p, d)
        \/ ~Resumed /\ PersistGet(p, d)
        \/ ~Resumed /\ PersistPut(p, d)
        \/ ~Resumed /\ PersistFails(p, d)
        \/ ~Resumed /\ CloseSubLocked(p, d)
        \/ ~Resumed /\ CloseSubDone(p, d)
        \/ ~Resumed /\ CloseSubFails(p, d)
        \/ ~Resumed /\ DeleteLocked(p, d)
        \/ ~Resumed /\ DeleteDone(p, d)
        \/ ~Resumed /\ DeleteFails(p, d)

SpecOrdered == InitOrdered /\ [][NextOrdered]_vars

\* ------------------------------------------------ FeedStore.createReadStream

\* What the filter of a read stream does with a descriptor: accept it, pass
\* over it, or throw.
Filters == {"all", "none", "throws"}

NotStore == UNCHANGED <<storeVars, descVars, feedVars, procVars, budget, faults>>

\* feed-store.js 404-425: a reader is made and put in the set; _isOpen() is
\* called on the spot and rejects, resolves or waits for 'ready'.
CreateReadStream(r, f) ==
    /\ reader[r].state = "none"
    /\ \A x \in Rids : reader[x].state = "none" => r <= x
    /\ readers' = readers \cup {r}
    /\ reader' = [reader EXCEPT ![r] =
                    [NoReader EXCEPT !.filter = f,
                                     !.state = IF IsClosed(state) THEN "rejected"
                                               ELSE IF state = OPENED THEN "start"
                                               ELSE "wait"]]
    /\ emit' = NoEvent
    /\ UNCHANGED <<attach, fed, selective, bulk>>
    /\ NotStore

\* A stream is destroyed and its end listener (feed-store.js 409-411) takes
\* the reader out of the set.
Ended(r, e) ==
    /\ reader' = [reader EXCEPT ![r] = Destroyed(reader[r], e)]
    /\ readers' = readers \ {r}

\* feed-store.js 422-424: _isOpen() rejected; the reader is destroyed with it.
ReaderRejected(r) ==
    /\ reader[r].state = "rejected"
    /\ Ended(r, "Closed")
    /\ emit' = NoEvent
    /\ UNCHANGED <<attach, fed, selective, bulk>>
    /\ NotStore

\* feed-store.js 415-421: _isOpen() resolved; addFeedStream on every
\* descriptor of the map that is opened, each up to the await of the filter.
ReaderStart(r) ==
    /\ reader[r].state = "start"
    /\ reader' = [reader EXCEPT
            ![r].state = "live",
            ![r].again = @ \cup {x \in Accepted("*") :
                                    Opened(x) /\ Attachable(r, x) /\ <<r, x>> \in attach}]
    /\ attach' = attach \cup
            {<<r, d>> : d \in {x \in Accepted("*") : Opened(x) /\ Attachable(r, x)}}
    /\ emit' = NoEvent
    /\ UNCHANGED <<readers, fed, selective, bulk>>
    /\ NotStore

\* part_002 94-101, 141-173: the filter accepted the descriptor; a stream of
\* its feed is added to the reader's stream, whether or not the reader holds
\* the feed by now: _feeds was looked at before the await only. When a
\* second call for the descriptor is waiting for its filter, that one is
\* still to come.
ReaderAttached(r, d) ==
    /\ <<r, d>> \in attach
    /\ reader[r].filter = "all"
    /\ attach' = IF d \in reader[r].again THEN attach ELSE attach \ {<<r, d>>}
    /\ reader' = [reader EXCEPT
            ![r].feeds = @ \cup {desc[d].feed},
            ![r].again = @ \ {d},
            ![r].twice = IF desc[d].feed \in reader[r].feeds
                         THEN @ \cup {desc[d].feed} ELSE @]
    /\ emit' = NoEvent
    /\ UNCHANGED <<readers, fed, selective, bulk>>
    /\ NotStore

\* part_002 94-98, 133-136: the filter passed over the descriptor.
ReaderDeclined(r, d) ==
    /\ <<r, d>> \in attach
    /\ reader[r].filter = "none"
    /\ attach' = IF d \in reader[r].again THEN attach ELSE attach \ {<<r, d>>}
    /\ reader' = [reader EXCEPT ![r].again = @ \ {d}]
    /\ emit' = NoEvent
    /\ UNCHANGED <<readers, fed, selective, bulk>>
    /\ NotStore

\* part_002 133 throws or rejects: addFeedStream rejects and the reader is
\* destroyed with the error (feed-store.js 113-115, 422-424).
ReaderAttachFails(r, d) ==
    /\ <<r, d>> \in attach
    /\ reader[r].filter = "throws"
    /\ attach' = attach \ {<<r, d>>}
    /\ Ended(r, "FilterError")
    /\ emit' = NoEvent
    /\ UNCHANGED <<fed, selective, bulk>>
    /\ NotStore

\* A record of an attached feed comes out of the reader's stream.
ReaderDelivers(r, h) ==
    /\ reader[r].state \notin {"none", "destroyed"}
    /\ h \in reader[r].feeds
    /\ feedOpened[h] /\ ~feedClosed[h]
    /\ h \notin reader[r].delivered
    /\ reader' = [reader EXCEPT ![r].delivered = @ \cup {h}]
    /\ emit' = NoEvent
    /\ UNCHANGED <<readers, attach, fed, selective, bulk>>
    /\ NotStore

\* The continuation of a read stream's _isOpen() is due: a promise job.
ReaderResumed == \E r \in Rids : reader[r].state \in {"rejected", "start"}

ReaderCalls == {[name |-> "openFeed", path |-> "a", key |-> 0, meta |-> 0]}

InitReaders ==
    /\ InitOpened
    /\ budget = MaxReaderOps

\* Callers that open feeds, make read streams with each kind of filter and
\* close the store, on a log engine and a trie that work.
\* Calls start at any time; promise jobs go on before any lock is granted or
\* I/O completes.
NextReaders ==
    \/ \E p \in Procs :
        \/ CallClosed(p, ReaderCalls)
        \/ CallOpened(p, ReaderCalls)
        \/ CloseClosed(p)
        \/ CloseCall(p)
        \/ OpenFeedExisting(p)
        \/ OpenFeedCreate(p)
    \/ \E r \in Rids :
        \/ \E f \in Filters : CreateReadStream(r, f)
        \/ ReaderRejected(r)
        \/ ReaderStart(r)
    \/ \E p \in Procs :
        \/ ~Resumed /\ ~ReaderResumed /\ CloseLockedClosed(p)
        \/ ~Resumed /\ ~ReaderResumed /\ CloseLocked(p)
        \/ ~Resumed /\ ~ReaderResumed /\ CloseJoinResolved(p)
        \/ ~Resumed /\ ~ReaderResumed /\ CloseIndexClosed(p)
    \/ \E p \in Procs, d \in DescIds :
        \/ ~Resumed /\ ~ReaderResumed /\ OpenLockedOpened(p, d)
        \/ ~Resumed /\ ~ReaderResumed /\ OpenConstruct(p, d)
        \/ ~Resumed /\ ~ReaderResumed /\ OpenReady(p, d)
        \/ ~Resumed /\ ~ReaderResumed /\ PersistGet(p, d)
        \/ ~Resumed /\ ~ReaderResumed /\ PersistPut(p, d)
        \/ ~Resumed /\ ~ReaderResumed /\ CloseSubLocked(p, d)
        \/ ~Resumed /\ ~ReaderResumed /\ CloseSubDone(p, d)
    \/ \E r \in Rids, d \in DescIds :
        \/ ~Resumed /\ ~ReaderResumed /\ ReaderAttached(r, d)
        \/ ~Resumed /\ ~ReaderResumed /\ ReaderDeclined(r, d)
        \/ ~Resumed /\ ~ReaderResumed /\ ReaderAttachFails(r, d)
    \/ \E r \in Rids, h \in FeedIds :
        ~Resumed /\ ~ReaderResumed /\ ReaderDelivers(r, h)

SpecReaders == InitReaders /\ [][NextReaders]_vars

\* ------------------------------------------------------------------ claims

DescriptorsOf(x) == {i \in 1..Len(descriptors) : desc[descriptors[i]].path = x}

HandlesOf(x) == {h \in 1..nfeeds : feedDesc[h] # 0 /\ desc[feedDesc[h]].path = x}

ResolvedOpen(p) == pc[p] = "done" /\ op[p].name = "openFeed" /\ ret[p] = "ok"

\* C1: concurrent openFeed(p) calls with no key all resolve to the same
\* handle, one descriptor is registered for p, and the log of p is
\* instantiated once.
C1_OpenFeedOnce ==
    /\ \A p, q \in Procs :
        ResolvedOpen(p) /\ ResolvedOpen(q) /\ op[p].path = op[q].path
            => val[p] = val[q]
    /\ \A x \in Paths :
        /\ Cardinality(DescriptorsOf(x)) <= 1
        /\ Cardinality(HandlesOf(x)) <= 1
    /\ \A p \in Procs :
        ResolvedOpen(p) =>
            /\ HandlesOf(op[p].path) = {val[p]}
            /\ Cardinality(DescriptorsOf(op[p].path)) = 1

C1_Witness ==
    \E p, q \in Procs :
        /\ p # q
        /\ ResolvedOpen(p) /\ ResolvedOpen(q)
        /\ op[p].path = op[q].path
        /\ sub[p] = sub[q]
        /\ val[p] # 0

InQueue(p, d) == \E i \in 1..Len(dlock[d]) : dlock[d][i] = p

\* C3: once open(), close() or the locked part of deleteDescriptor() has
\* failed, the failed call is out of the descriptor's mutex: nobody who has
\* settled sits in the queue, so whoever asks next is served.
C3_ReleasedOnError ==
    \A p \in Procs, d \in DescIds :
        /\ sub[p][d] = "err" => ~InQueue(p, d)
        /\ Holds(dlock[d], p) => sub[p][d] \notin {"-", "ok", "err"}

C3_Witness ==
    \E p, q \in Procs, d \in DescIds :
        /\ op[p].name = "deleteDescriptor"
        /\ sub[p][d] = "err"
        /\ faults = 1
        /\ Holds(dlock[d], q)

\* C4 as claimed: when open() fails in constructing the log or in waiting for
\* its ready, the descriptor is left with no feed and closed.
C4_FailedOpenClean ==
    [][\A p \in Procs, d \in DescIds :
        (/\ Kind(op[p].name) = "open"
         /\ sub[p][d] \in {"lock", "ready"}
         /\ sub'[p][d] = "err")
        => (desc'[d].feed = 0 /\ DescState(d)' = CLOSED)]_vars

CloseFailed(p, d) ==
    /\ Kind(op[p].name) = "close"
    /\ sub[p][d] = "closing"
    /\ sub'[p][d] = "err"

CloseSucceeded(p, d) ==
    /\ Kind(op[p].name) = "close"
    /\ sub[p][d] \in {"lock", "closing"}
    /\ sub'[p][d] = "ok"

\* C5 as claimed: a failed close() leaves the descriptor in state closing.
C5_FailedCloseClosing ==
    [][\A p \in Procs, d \in DescIds :
        CloseFailed(p, d) => DescState(d)' = CLOSING]_vars

\* C5 as amended: a failed close() leaves the mutex released and the feed
\* handle in place, the descriptor opened if the log still counts as open and
\* closed otherwise (there is no closing state); a close() that succeeds,
\* also after a failed one, leaves it closed with the mutex released.
C5_FailedCloseReleased ==
    [][\A p \in Procs, d \in DescIds :
        /\ CloseFailed(p, d) =>
            /\ ~InQueue(p, d)'
            /\ desc'[d].feed = desc[d].feed
            /\ desc[d].feed # 0
            /\ DescState(d)' = IF feedClosed'[desc[d].feed] THEN CLOSED ELSE OPENED
        /\ CloseSucceeded(p, d) =>
            /\ ~InQueue(p, d)'
            /\ DescState(d)' = CLOSED]_vars

C5_Witness ==
    \E p, q \in Procs, d \in 1..ndesc :
        /\ p # q
        /\ Kind(op[p].name) = "close" /\ sub[p][d] = "err"
        /\ Kind(op[q].name) = "close" /\ sub[q][d] = "ok"
        /\ desc[d].feed # 0
        /\ DescState(d) = CLOSED
        /\ dlock[d] = << >>

\* C6: no two descriptors of the map share a path or a key (the discovery key
\* is a hash of the key).
C6_Unique ==
    \A i, j \in 1..Len(descriptors) :
        i # j =>
            /\ desc[descriptors[i]].path # desc[descriptors[j]].path
            /\ desc[descriptors[i]].key # desc[descriptors[j]].key

StoreUnchanged ==
    /\ UNCHANGED <<state, descriptors, indexDB, index, desc, ndesc>>
    /\ UNCHANGED <<feedOpened, feedClosed, feedDesc, nfeeds, dlock, slock>>

\* C7: openFeed(path, {key}) on a path whose descriptor holds another key is
\* rejected with KeyMismatch and changes nothing in the store.
C7_KeyMismatch ==
    [][\A p \in Procs :
        (/\ pc[p] = "find"
         /\ pc'[p] # "find"
         /\ op[p].name = "openFeed"
         /\ op[p].key # 0
         /\ \E i \in 1..Len(descriptors) :
                /\ desc[descriptors[i]].path = op[p].path
                /\ \A j \in 1..(i - 1) : desc[descriptors[j]].path # op[p].path
                /\ desc[descriptors[i]].key # op[p].key)
        => (/\ pc'[p] = "done"
            /\ ret'[p] = "KeyMismatch"
            /\ sub'[p] = NoSubs
            /\ StoreUnchanged)]_vars

C7_Witness ==
    \E p \in Procs :
        /\ pc[p] = "done"
        /\ op[p].name = "openFeed"
        /\ ret[p] = "KeyMismatch"
        /\ \E i \in 1..Len(descriptors) :
            /\ desc[descriptors[i]].path = op[p].path
            /\ desc[descriptors[i]].key # op[p].key

\* C8: openFeed(path, {key}) on a path with no descriptor, with a key that a
\* registered descriptor holds, is rejected with DuplicateKey; no descriptor
\* is made and no record written.
C8_DuplicateKey ==
    [][\A p \in Procs :
        (/\ pc[p] = "find"
         /\ pc'[p] # "find"
         /\ op[p].name = "openFeed"
         /\ op[p].key # 0
         /\ \A i \in 1..Len(descriptors) : desc[descriptors[i]].path # op[p].path
         /\ \E i \in 1..Len(descriptors) : desc[descriptors[i]].key = op[p].key)
        => (/\ pc'[p] = "done"
            /\ ret'[p] = "DuplicateKey"
            /\ sub'[p] = NoSubs
            /\ StoreUnchanged)]_vars

C8_Witness ==
    \E p \in Procs :
        /\ pc[p] = "done"
        /\ op[p].name = "openFeed"
        /\ ret[p] = "DuplicateKey"
        /\ \A i \in 1..Len(descriptors) : desc[descriptors[i]].path # op[p].path
        /\ \E i \in 1..Len(descriptors) : desc[descriptors[i]].key = op[p].key

Guarded == {"openFeed", "openFeeds", "closeFeed", "deleteDescriptor"}

\* The caller p starts an operation in this step.
Starts(p) ==
    /\ budget' = budget - 1
    /\ Free(p)
    /\ \A q \in Procs : Free(q) => p <= q

\* C9: openFeed, openFeeds, closeFeed and deleteDescriptor called on a closing
\* or closed store are rejected with Closed and change nothing; called on an
\* opening store they touch no descriptor while they wait, and they go on
\* exactly in the step that makes the store opened.
C9_NeedsOpened ==
    [][\A p \in Procs :
        /\ (Starts(p) /\ op'[p].name \in Guarded /\ state \in {CLOSING, CLOSED})
            => (/\ pc'[p] = "done"
                /\ ret'[p] = "Closed"
                /\ sub'[p] = NoSubs
                /\ StoreUnchanged)
        /\ (Starts(p) /\ op'[p].name \in Guarded /\ state = OPENING)
            => (pc'[p] = "wait" /\ StoreUnchanged)
        /\ pc'[p] = "wait" => (sub'[p] = NoSubs /\ op'[p].name \in Guarded)
        /\ (pc[p] = "wait" /\ pc'[p] # "wait")
            => (pc'[p] = "find" /\ state # OPENED /\ state' = OPENED)]_vars

C9_Witness ==
    \E p, q \in Procs :
        /\ pc[p] = "wait"
        /\ op[p].name = "openFeed"
        /\ state = OPENING
        /\ op[q].name = "initialize"
        /\ pc[q] = "in_list"
        /\ descriptors = << >>

\* C10: when initialize() fails, the store is left closed.
C10_FailedInitializeClosed ==
    [][\A p \in Procs :
        (/\ op[p].name = "initialize"
         /\ pc[p] = "in_list"
         /\ pc'[p] = "done"
         /\ ret'[p] = "EngineError")
        => state' = CLOSED]_vars

\* The map holds one descriptor per stored record, with the record's fields.
OnePerRecord ==
    /\ ndesc = Cardinality(StoredKeys)
    /\ Len(descriptors) = Cardinality(StoredKeys)
    /\ \A k \in StoredKeys :
        Cardinality({i \in 1..Len(descriptors) :
            /\ desc[descriptors[i]].key = k
            /\ desc[descriptors[i]].path = index[k].path
            /\ desc[descriptors[i]].meta = index[k].meta}) = 1

\* C11: whatever number of initialize() calls run together on a closed store,
\* the store enters opening once (with the first call), the records are
\* listed once, so one descriptor is made per stored record, no feed is
\* opened, and once the calls have settled the store is opened.
C11_InitializeOnce ==
    /\ [](/\ ndesc <= Cardinality(StoredKeys)
          /\ nfeeds = 0
          /\ \A d \in DescIds : desc[d].feed = 0 /\ ~Opened(d)
          /\ state = OPENED => OnePerRecord
          /\ state = CLOSED <=> budget = MaxOps
          /\ (budget < MaxOps /\ \A p \in Procs : pc[p] \in {"idle", "done"})
                => (state = OPENED /\ \A p \in Procs : ret[p] \in {"none", "ok", "Opened"}))
    /\ [][(state # OPENING /\ state' = OPENING) => (state = CLOSED /\ budget = MaxOps)]_vars
    /\ [][state = OPENED => state' = OPENED /\ UNCHANGED <<descriptors, desc, ndesc>>]_vars

C11_Witness ==
    \E p, q \in Procs :
        /\ p # q
        /\ pc[p] = "done" /\ ret[p] = "ok" /\ last[p] = OPENING
        /\ pc[q] = "done" /\ ret[q] = "ok" /\ last[q] = OPENED
        /\ Cardinality(StoredKeys) = 2
        /\ OnePerRecord
        /\ state = OPENED

InMap(d) == \E i \in 1..Len(descriptors) : descriptors[i] = d

\* The descriptor whose open() the resolved openFeed of p returned.
OpenedBy(p) == feedDesc[val[p]]

Deleted(p, d) ==
    /\ op[p].name = "deleteDescriptor"
    /\ sub[p][d] = "deleting"
    /\ sub'[p][d] = "ok"

\* C13: a deleteDescriptor(p) that succeeds removes the record of the
\* descriptor from the trie, takes the descriptor out of the map, emits
\* descriptor-remove for it and releases its mutex; the descriptor's feed
\* handle and the log behind it are left as they were, open if they were open.
C13_DeleteKeepsFeed ==
    [][\A p \in Procs, d \in DescIds :
        Deleted(p, d) =>
            /\ index'[desc[d].key] = NoRec
            /\ ~InMap(d)'
            /\ \A i \in 1..Len(descriptors') : desc[descriptors'[i]].key # desc[d].key
            /\ emit' = [name |-> "descriptor-remove", d |-> d]
            /\ ~InQueue(p, d)'
            /\ desc' = desc
            /\ UNCHANGED feedVars
            /\ Opened(d)' = Opened(d)
            /\ pc'[p] = "done" /\ ret'[p] = "ok"]_vars

C13_Witness ==
    \E p \in Procs, d \in 1..ndesc :
        /\ op[p].name = "deleteDescriptor"
        /\ pc[p] = "done" /\ ret[p] = "ok"
        /\ sub[p][d] = "ok"
        /\ emit = [name |-> "descriptor-remove", d |-> d]
        /\ Opened(d)
        /\ ~InMap(d)
        /\ index[desc[d].key] = NoRec

\* C14 as claimed: when a descriptor's close fails under the store's close(),
\* close was called on every registered descriptor, the caller gets the
\* error, and the store is left closed.
C14_FailedCloseClosed ==
    [][\A p \in Procs :
        (/\ op[p].name = "close"
         /\ pc[p] = "join"
         /\ pc'[p] = "done"
         /\ \E d \in DescIds : sub[p][d] = "err")
        => (/\ \A i \in 1..Len(descriptors) : sub[p][descriptors[i]] # "-"
            /\ ret'[p] = "EngineError"
            /\ state' = CLOSED)]_vars

\* The close() of p completes successfully in this step.
Closes(p) ==
    /\ op[p].name = "close"
    /\ pc[p] = "cl_idx"
    /\ pc'[p] = "done"
    /\ ret'[p] = "ok"

\* C15: when a store close() completes successfully the store is closed, the
\* map is empty, no descriptor the map held has an open feed, the trie is
\* closed, the set of readers is empty, and closed is emitted in that step
\* and in no other.
C15_Closed ==
    [][/\ \A p \in Procs :
            Closes(p) =>
                /\ state' = CLOSED
                /\ descriptors' = << >>
                /\ indexDB' = "closed"
                /\ readers' = {}
                /\ emit' = [name |-> "closed", d |-> 0]
                /\ \A d \in DescIds : sub[p][d] # "-" => ~Opened(d)'
       /\ emit'.name = "closed" => \E p \in Procs : Closes(p)]_vars

C15_Witness ==
    \E p \in Procs, d \in 1..ndesc :
        /\ op[p].name = "close"
        /\ pc[p] = "done" /\ ret[p] = "ok"
        /\ emit.name = "closed"
        /\ state = CLOSED
        /\ sub[p][d] = "ok"
        /\ desc[d].feed # 0 /\ feedClosed[desc[d].feed]

\* The caller p takes a step of its operation.
Acts(p) == pc'[p] # pc[p] \/ sub'[p] # sub[p] \/ op'[p] # op[p]

\* C16 as claimed: the store's state and its descriptor map change only in
\* steps of a caller that holds the store's mutex.
C16_UnderStoreMutex ==
    [][(state' # state \/ descriptors' # descriptors)
        => \E p \in Procs : Holds(slock, p) /\ Acts(p)]_vars

\* The reader r comes into being in this step.
Created(r) == reader[r].state = "none" /\ reader'[r].state # "none"

\* C17: a read stream made while the store is closing or closed is in the
\* set only until the rejection of _isOpen() is handled: it is then destroyed
\* with Closed, having attached no feed and delivered no record, and it
\* delivers none afterwards; a destroyed reader is never in the set; and
\* when close() completes every reader of the set is destroyed with Closed
\* and the set is empty.
C17_ClosedReaders ==
    /\ [](\A r \in Rids :
            /\ reader[r].state = "destroyed" => r \notin readers
            /\ reader[r].state = "rejected" =>
                /\ reader[r].feeds = {} /\ reader[r].delivered = {}
                /\ \A d \in DescIds : <<r, d>> \notin attach)
    /\ [][\A r \in Rids :
            /\ (Created(r) /\ IsClosed(state)) => reader'[r].state = "rejected"
            /\ (reader[r].state = "rejected" /\ reader'[r] # reader[r]) =>
                /\ reader'[r] = [reader[r] EXCEPT !.state = "destroyed", !.err = "Closed"]
                /\ r \notin readers'
            /\ reader[r].state = "destroyed" =>
                /\ reader'[r].state = "destroyed"
                /\ reader'[r].err = reader[r].err
                /\ reader'[r].delivered = reader[r].delivered
            /\ (r \in readers /\ \E p \in Procs : Closes(p)) =>
                /\ reader'[r].state = "destroyed"
                /\ reader'[r].err = "Closed"
                /\ readers' = {}]_vars

C17_Witness ==
    /\ state = CLOSED
    /\ attach = {}
    /\ reader[1].state = "destroyed" /\ reader[1].err = "Closed"
    /\ reader[1].delivered # {}
    /\ reader[2].state = "destroyed" /\ reader[2].err = "Closed"
    /\ reader[2].filter = "all" /\ reader[2].feeds = {}
    /\ readers = {}

\* The addFeedStream of r on d is rejected by r's filter in this step.
AttachFailed(r, d) ==
    /\ <<r, d>> \in attach
    /\ <<r, d>> \notin attach'
    /\ reader[r].filter = "throws"

\* C18: when the filter of a reader throws in addFeedStream, that reader is
\* destroyed with the filter's error, no event is emitted and nothing else
\* changes: the other readers, their pending attachments, the callers, the descriptors and the
\* store are as before. Every reader of the set that can take the feed gets
\* its addFeedStream call when feed is emitted, and a reader whose filter
\* accepts ends up with the feed, whatever became of the others.
C18_AttachFailure ==
    [][/\ \A r \in Rids, d \in DescIds :
            AttachFailed(r, d) =>
                /\ reader'[r].state = "destroyed"
                /\ reader'[r].err =
                        IF reader[r].state = "destroyed" THEN reader[r].err ELSE "FilterError"
                /\ r \notin readers'
                /\ \A x \in Rids \ {r} : reader'[x] = reader[x] /\ (x \in readers' <=> x \in readers)
                /\ attach' = attach \ {<<r, d>>}
                /\ UNCHANGED <<storeVars, descVars, feedVars, procVars>>
                /\ emit' = NoEvent
       /\ emit'.name = "feed" =>
            \A x \in readers :
                (/\ reader[x].state # "destroyed"
                 /\ desc[emit'.d].feed \notin reader[x].feeds)
                => <<x, emit'.d>> \in attach'
       /\ \A x \in Rids, d \in DescIds :
            (<<x, d>> \in attach /\ <<x, d>> \notin attach' /\ reader[x].filter = "all")
                => desc[d].feed \in reader'[x].feeds]_vars

C18_Witness ==
    \E r, x \in Rids, p \in Procs :
        /\ r # x
        /\ reader[r].state = "destroyed" /\ reader[r].err = "FilterError"
        /\ reader[r].feeds = {}
        /\ reader[x].state = "live" /\ x \in readers
        /\ ResolvedOpen(p)
        /\ val[p] \in reader[x].feeds
        /\ val[p] \in reader[x].delivered
        /\ fed[val[p]] = 1
        /\ state = OPENED
        /\ Opened(OpenedBy(p))

\* C20 as claimed: feed is emitted once for each log that is opened, and a
\* reader attaches a log, or delivers a record of it, only after that.
C20_FeedBeforeReaders ==
    /\ \A h \in FeedIds : fed[h] <= 1
    /\ \A r \in Rids : \A h \in reader[r].feeds \cup reader[r].delivered : fed[h] = 1

\* ------------------------------------ the selective and the ordered reader

UnshiftAtTail(buf, m) == Append(buf, m)

UnshiftDrops(buf, m) == buf

\* feed.buffer.unshift(message) (feed-store.test.js 507, part_003 294).
Unshift(buf, m) == <<m>> \o buf

\* Some feed of the reader has messages in its buffer.
Buffered(rec) == \E f \in SelFeeds : rec.buffer[f] # << >>

\* The gated evaluator: a message of the last feed is always admitted, one
\* of another feed once every message of the last feed has come out, or once
\* the consumer has allowed every feed.
Admits(rec, m) ==
    \/ rec.mode = "allow"
    \/ m[1] = MaxSelFeeds
    \/ Cardinality({i \in 1..Len(rec.out) : rec.out[i][1] = MaxSelFeeds}) >= MaxMsgs

\* What awaiting the evaluator on the head message can give (feed-store.test.js
\* 493, part_003 283): anything for a free evaluator, its verdict for the
\* gated one.
Verdicts(rec) ==
    IF rec.mode = "free" THEN {"accept", "reject", "throw"}
    ELSE IF Admits(rec, Head(rec.buffer[rec.cur])) THEN {"accept"}
    ELSE {"reject"}

DeferredWakeNone(rec) == rec

\* feed-store.test.js 497, part_003 285: after an admission the has-data
\* promise is resolved on the next tick.
DeferredWake(rec) == [rec EXCEPT !.wake = TRUE]

\* The top of a pass: the has-data promise is renewed and the loop over the
\* feeds starts (feed-store.test.js 481-483, part_003 270-272).
StartPass(rec) == [rec EXCEPT !.pc = "pass", !.wake = FALSE, !.cur = 1]

\* _read() (feed-store.test.js 469-477, part_003 258-267): a call during a
\* pass only notes that data is needed, any other call starts a pass.
Read(rec) ==
    IF rec.reading THEN [rec EXCEPT !.needsData = TRUE]
    ELSE StartPass([rec EXCEPT !.reading = TRUE, !.needsData = FALSE])

\* A step of the reader under test: nothing of the store and no other
\* reader is touched.
SelSet(rec) ==
    /\ selective' = rec
    /\ emit' = NoEvent
    /\ UNCHANGED <<readers, reader, attach, fed, bulk>>
    /\ NotStore

\* The stream asks for data: Readable calls _read() unless it is destroyed.
SelRead ==
    /\ selective.kind # "none"
    /\ ~selective.destroyed
    /\ SelSet(Read(selective))

\* A batch of n messages arrives on feed f and its stream fires 'readable':
\* the handler wakes the reader, and the selective reader's handler calls
\* _read() as well (feed-store.test.js 539-542, part_003 322-326).
SelReadable(f, n) ==
    /\ selective.kind # "none"
    /\ selective.sent[f] + n <= MaxMsgs
    /\ LET batch == [i \in 1..n |-> <<f, selective.sent[f] + i>>]
           woken == [selective EXCEPT !.stream[f] = Append(@, batch),
                                      !.sent[f] = @ + n,
                                      !.wake = TRUE]
       IN SelSet(IF selective.kind = "selective" THEN Read(woken) ELSE woken)

\* The loop over the feeds (feed-store.test.js 483-490, part_003 272-279):
\* an empty buffer is filled with the stream's next batch, and a feed with
\* nothing to read is skipped.
SelNext ==
    /\ selective.pc = "pass"
    /\ selective.cur \in SelFeeds
    /\ LET f == selective.cur
       IN SelSet(IF selective.buffer[f] # << >> THEN [selective EXCEPT !.pc = "eval"]
                 ELSE IF selective.stream[f] = << >> THEN [selective EXCEPT !.cur = f + 1]
                 ELSE [selective EXCEPT !.buffer[f] = Head(selective.stream[f]),
                                        !.stream[f] = Tail(@),
                                        !.pc = "eval"])

\* The evaluator admits the head message (feed-store.test.js 492-504,
\* part_003 282-291): the deferred wake is set, the message is pushed, and
\* the pass ends there when push() returns false.
SelAccept(full) ==
    /\ selective.pc = "eval"
    /\ "accept" \in Verdicts(selective)
    /\ LET f == selective.cur
           pushed == [DeferredWake(selective) EXCEPT
                                       !.buffer[f] = Tail(@),
                                       !.out = Append(@, Head(selective.buffer[f])),
                                       !.needsData = FALSE]
       IN SelSet(IF full THEN [pushed EXCEPT !.reading = FALSE, !.pc = "idle"]
                 ELSE IF pushed.buffer[f] = << >>
                      THEN [pushed EXCEPT !.cur = f + 1, !.pc = "pass"]
                 ELSE pushed)

\* The evaluator refuses the head message (feed-store.test.js 505-509,
\* part_003 292-296): it goes back to the head of the buffer and the loop
\* moves on to the next feed.
SelReject ==
    /\ selective.pc = "eval"
    /\ "reject" \in Verdicts(selective)
    /\ SelSet([selective EXCEPT
                !.buffer[selective.cur] = Unshift(Tail(@), Head(@)),
                !.cur = @ + 1,
                !.pc = "pass"])

\* The evaluator throws or rejects (feed-store.test.js 492-493, part_003
\* 282-283): the await throws inside the async function, which has no try
\* block, so its promise rejects with nobody holding it. The message was
\* shifted off the buffer before the call.
SelThrows ==
    /\ selective.pc = "eval"
    /\ "throw" \in Verdicts(selective)
    /\ SelSet([selective EXCEPT !.buffer[selective.cur] = Tail(@),
                                !.pc = "rejected",
                                !.unhandled = TRUE])

\* The loop over the feeds is through. The selective reader yields to a
\* timer first (feed-store.test.js 513); the ordered reader decides at once
\* between a new pass on a timer and waiting (part_003 300-305).
SelPassEnd ==
    /\ selective.pc = "pass"
    /\ selective.cur = MaxSelFeeds + 1
    /\ SelSet(IF selective.kind = "selective" THEN [selective EXCEPT !.pc = "yield"]
              ELSE IF selective.needsData /\ Buffered(selective)
                   THEN [selective EXCEPT !.pc = "timer"]
              ELSE [selective EXCEPT !.pc = "wait"])

\* feed-store.test.js 515-521: after the timer, a new pass if data is needed
\* and buffered, else the reader waits for the has-data promise.
SelYielded ==
    /\ selective.pc = "yield"
    /\ SelSet(IF selective.needsData /\ Buffered(selective) THEN StartPass(selective)
              ELSE [selective EXCEPT !.pc = "wait"])

\* The has-data promise is resolved (feed-store.test.js 521, part_003
\* 303-304): the selective reader loops, the ordered one sets a timer.
SelWoken ==
    /\ selective.pc = "wait"
    /\ selective.wake
    /\ SelSet(IF selective.kind = "selective" THEN StartPass(selective)
              ELSE [selective EXCEPT !.pc = "timer"])

\* part_003 301, 304: the timer of the ordered reader fires _pollFeeds().
SelTimer ==
    /\ selective.pc = "timer"
    /\ SelSet(StartPass(selective))

\* An opened store without descriptors, callers or read streams.
Quiet ==
    /\ state = OPENED
    /\ indexDB = "open"
    /\ index = [k \in Keys |-> NoRec]
    /\ descriptors = << >>
    /\ desc = [d \in DescIds |-> NoDesc]
    /\ ndesc = 0
    /\ slock = << >>
    /\ dlock = [d \in DescIds |-> << >>]
    /\ feedOpened = [h \in FeedIds |-> FALSE]
    /\ feedClosed = [h \in FeedIds |-> FALSE]
    /\ feedDesc = [h \in FeedIds |-> 0]
    /\ nfeeds = 0
    /\ pc = [p \in Procs |-> "idle"]
    /\ op = [p \in Procs |-> NoOp]
    /\ sub = [p \in Procs |-> NoSubs]
    /\ last = [p \in Procs |-> CLOSED]
    /\ ret = [p \in Procs |-> "none"]
    /\ val = [p \in Procs |-> 0]
    /\ emit = NoEvent
    /\ readers = {}
    /\ reader = [r \in Rids |-> NoReader]
    /\ attach = {}
    /\ fed = [h \in FeedIds |-> 0]
    /\ faults = 0
    /\ budget = 0

\* A reader of either kind just constructed.
InitSelective ==
    /\ Quiet
    /\ selective \in {[NoSelective EXCEPT !.kind = k] : k \in Kinds}
    /\ bulk = NoBulk

\* Batches arrive, the stream asks for data, and the evaluator admits,
\* refuses or throws.
NextSelective ==
    \/ SelRead
    \/ \E f \in SelFeeds, n \in 1..MaxMsgs : SelReadable(f, n)
    \/ SelNext
    \/ \E full \in BOOLEAN : SelAccept(full)
    \/ SelReject
    \/ SelThrows
    \/ SelPassEnd
    \/ SelYielded
    \/ SelWoken
    \/ SelTimer

SpecSelective == InitSelective /\ [][NextSelective]_vars

\* C19 as claimed: when the predicate throws on a message, the reader is
\* destroyed with the predicate's error, it takes no further pass and
\* pushes nothing more, and the store and the other readers are untouched.
C19_PredicateThrowDestroys ==
    [][/\ (selective.pc = "eval" /\ selective'.pc = "rejected") =>
            /\ selective'.destroyed
            /\ selective'.err = "PredicateError"
            /\ UNCHANGED <<storeVars, descVars, feedVars, procVars, readers, reader, attach>>
       /\ selective.pc = "rejected" =>
            /\ selective'.pc = "rejected"
            /\ selective'.out = selective.out]_vars

\* ------------------------------------------------ the Reader's sync state

WatermarkLate(initial, len) == len > 0

WatermarkAlways(initial, len) == initial

\* part_002 68-71: only addInitialFeedStreams puts a feed in _feedsToSync,
\* and only a feed whose log has messages; addFeedStream (94-101) never does.
Watermark(initial, len) == initial /\ len > 0

\* The flag the batch stream sets on a message: the stream has read up to
\* the head the log had when the stream was attached.
Crossed(seq, head) == head > 0 /\ seq + 1 >= head

\* part_012 42-46: a batch ends batch messages on, or at the log's end.
BatchEnd(from, len) == IF from + Batch > len THEN len ELSE from + Batch

SetStartSkips(prev, value) == value + 1

\* part_012 80-88: the next read starts where this one ends.
SetStart(prev, value) == value

\* A step of the Reader under test: nothing of the store and no other
\* reader is touched.
BulkSet(rec) ==
    /\ bulk' = rec
    /\ emit' = NoEvent
    /\ UNCHANGED <<readers, reader, attach, fed, selective>>
    /\ NotStore

\* A writer appends a message to the log of an opened feed.
BulkAppend(f) ==
    /\ bulk.pc # "none"
    /\ f \in bulk.cohort \cup bulk.feeds
    /\ bulk.log[f] < MaxLog
    /\ BulkSet([bulk EXCEPT !.log[f] = @ + 1])

\* part_002 65-77: the filter of one feed of the initial call resolves; a
\* feed with messages is to sync, and its entry of the sync state is 0.
BulkFiltered(f) ==
    /\ bulk.pc = "filter"
    /\ f \in bulk.pending
    /\ BulkSet([bulk EXCEPT !.pending = @ \ {f},
                            !.valid = @ \cup {f},
                            !.feedsToSync = IF Watermark(TRUE, bulk.log[f])
                                            THEN @ \cup {f} ELSE @,
                            !.syncState[f] = 0])

\* part_002 79-86: every filter of the initial call has resolved; the feed
\* streams are added, and synced is emitted at once when no feed is to sync.
BulkAdded ==
    /\ bulk.pc = "filter"
    /\ bulk.pending = {}
    /\ BulkSet([bulk EXCEPT !.pc = "live",
                            !.feeds = @ \cup bulk.valid,
                            !.head = [f \in BulkFeeds |->
                                        IF f \in bulk.valid \ bulk.feeds
                                        THEN bulk.log[f] ELSE @[f]],
                            !.synced = IF bulk.feedsToSync = {} /\ @ < MaxFed
                                       THEN @ + 1 ELSE @])

\* feed-store.js 111-117, part_002 94-101: a feed opened after the reader
\* was made is added by the 'feed' listener.
BulkLate(f) ==
    /\ bulk.pc \in {"filter", "live"}
    /\ f \notin bulk.cohort
    /\ f \notin bulk.feeds
    /\ BulkSet([bulk EXCEPT !.feeds = @ \cup {f},
                            !.head[f] = bulk.log[f],
                            !.feedsToSync = IF Watermark(FALSE, bulk.log[f])
                                            THEN @ \cup {f} ELSE @])

\* part_012 33-64, part_002 115-124, 152-169: the stream of feed f reads a
\* batch and the transform takes it: _checkFeedSync looks at the last
\* message, the messages are pushed on, and synced is emitted when that
\* message was the one that emptied _feedsToSync.
BulkBatch(f) ==
    /\ f \in bulk.feeds
    /\ bulk.start[f] < bulk.log[f]
    /\ LET from == bulk.start[f]
           to == BatchEnd(from, bulk.log[f])
           hit == /\ bulk.feedsToSync # {}
                  /\ Crossed(to - 1, bulk.head[f])
                  /\ f \in bulk.feedsToSync
           left == IF hit THEN bulk.feedsToSync \ {f} ELSE bulk.feedsToSync
       IN BulkSet([bulk EXCEPT !.start[f] = SetStart(from, to),
                               !.through[f] = @ \o [i \in 1..(to - from) |-> from + i - 1],
                               !.syncState[f] = IF hit THEN to - 1 ELSE @,
                               !.feedsToSync = left,
                               !.synced = IF hit /\ left = {} /\ @ < MaxFed
                                          THEN @ + 1 ELSE @])

\* part_002 171: the merged stream takes the next message of feed f from
\* its transform and hands it to the consumer.
BulkDeliver(f) ==
    /\ bulk.through[f] # << >>
    /\ BulkSet([bulk EXCEPT !.through[f] = Tail(@),
                            !.out = Append(@, <<f, Head(bulk.through[f])>>)])

\* A Reader whose initial call has just been made with some of the feeds,
\* whose logs hold zero or one message.
InitSync ==
    /\ Quiet
    /\ selective = NoSelective
    /\ bulk \in {[NoBulk EXCEPT !.pc = "filter", !.cohort = c, !.pending = c, !.log = l] :
                    c \in SUBSET BulkFeeds, l \in [BulkFeeds -> 0..1]}

\* Writers append, filters resolve, feeds are opened later, batches are read
\* and the consumer reads, in any order.
NextSync ==
    \/ BulkAdded
    \/ \E f \in BulkFeeds :
        \/ BulkAppend(f)
        \/ BulkFiltered(f)
        \/ BulkLate(f)
        \/ BulkBatch(f)
        \/ BulkDeliver(f)

SpecSync == InitSync /\ [][NextSync]_vars

\* The messages the consumer has got from the Reader.
Delivered == {bulk.out[i] : i \in 1..Len(bulk.out)}

C22_SyncedAfterDelivery ==
    [][bulk'.synced > bulk.synced =>
        \A k \in BulkFeeds : \A n \in 0..bulk'.syncState[k] :
            n < bulk'.log[k] => <<k, n>> \in Delivered']_vars

\* The Reader's own steps are taken when they can be: filters resolve,
\* open feeds are read and the consumer keeps reading. Writers and the
\* opening of further feeds are free.
SpecSyncFair ==
    /\ InitSync
    /\ [][NextSync]_vars
    /\ WF_vars(BulkAdded)
    /\ \A f \in BulkFeeds :
        /\ WF_vars(BulkFiltered(f))
        /\ WF_vars(BulkBatch(f))
        /\ WF_vars(BulkDeliver(f))

OutOf(out, f) == SelectSeq(out, LAMBDA m : m[1] = f)

InitStreams == InitSync \/ InitSelective

NextStreams == NextSync \/ NextSelective

SpecStreams == InitStreams /\ [][NextStreams]_vars

\* Of two messages of one feed the one that came out first has the lower
\* sequence number.
Increasing(out) ==
    \A i, j \in 1..Len(out) :
        (i < j /\ out[i][1] = out[j][1]) => out[i][2] < out[j][2]

IsOrdered == selective.kind = "ordered"

\* C26: the ordered reader goes through the feeds in the order they were
\* added, from the first in every pass; a message comes out only in a step
\* in which the evaluator admitted it, and it is the head of the buffer of
\* the feed the pass stands at; a refusal leaves that buffer as it is and
\* moves the pass to the next feed; and what has come out of a feed is
\* always its first messages without a gap.
C26_OrderedAdmission ==
    /\ [](IsOrdered =>
            \A f \in SelFeeds :
                [i \in 1..Len(OutOf(selective.out, f)) |-> OutOf(selective.out, f)[i][2]]
                    = [i \in 1..Len(OutOf(selective.out, f)) |-> i])
    /\ [][IsOrdered =>
            /\ (selective.pc \in {"pass", "eval"} /\ selective'.pc \in {"pass", "eval"}) =>
                    selective'.cur \in {selective.cur, selective.cur + 1}
            /\ (selective.pc \notin {"pass", "eval"} /\ selective'.pc = "pass") =>
                    selective'.cur = 1
            /\ selective'.out # selective.out =>
                    /\ selective.pc = "eval"
                    /\ selective'.out = Append(selective.out, Head(selective.buffer[selective.cur]))
                    /\ selective'.buffer[selective.cur] = Tail(selective.buffer[selective.cur])
            /\ (selective.pc = "eval" /\ selective'.pc = "pass" /\ selective'.out = selective.out) =>
                    /\ selective'.buffer = selective.buffer
                    /\ selective'.cur = selective.cur + 1]_vars

C26_Witness ==
    /\ IsOrdered
    /\ selective.out = <<<<2, 1>>, <<1, 1>>, <<1, 2>>>>
    /\ selective.buffer[2] = <<<<2, 2>>>>
    /\ selective.pc = "pass"
    /\ selective.cur = MaxSelFeeds + 1

\* The sequence numbers of the messages of feed f that came out, then those
\* in its buffer.
Kept(f) ==
    [i \in 1..Len(OutOf(selective.out, f)) |-> OutOf(selective.out, f)[i][2]]
        \o [i \in 1..Len(selective.buffer[f]) |-> selective.buffer[f][i][2]]

\* How many messages of feed f were pulled from its batch stream.
Pulled(f) ==
    selective.sent[f]
        - Cardinality(UNION {{selective.stream[f][b][i] : i \in 1..Len(selective.stream[f][b])} :
                                b \in 1..Len(selective.stream[f])})

InitGate ==
    /\ Quiet
    /\ bulk = NoBulk
    /\ selective = [NoSelective EXCEPT !.kind = "selective", !.mode = "gate"]

NextGate ==
    \/ SelRead
    \/ \E f \in SelFeeds, n \in 1..MaxMsgs : SelReadable(f, n)
    \/ SelNext
    \/ \E full \in BOOLEAN : SelAccept(full)
    \/ SelReject
    \/ SelPassEnd
    \/ SelYielded
    \/ SelWoken

\* The reader's own steps are taken when they can be, and the consumer
\* keeps asking for data; when batches arrive is free.
SpecGate ==
    /\ InitGate
    /\ [][NextGate]_vars
    /\ WF_vars(SelRead)
    /\ WF_vars(SelNext)
    /\ WF_vars(\E full \in BOOLEAN : SelAccept(full))
    /\ WF_vars(SelReject)
    /\ WF_vars(SelPassEnd)
    /\ WF_vars(SelYielded)
    /\ WF_vars(SelWoken)

\* The message n of feed f has come out of the reader under test.
Emitted(f, n) == \E i \in 1..Len(selective.out) : selective.out[i] = <<f, n>>

\* C27: a message of the ungated feed that has arrived comes out in the
\* end; and once every message of the ungated feed has arrived, so does
\* every message of a gated feed that has arrived.
C27_GatedComesOut ==
    \A f \in SelFeeds, n \in 1..MaxMsgs :
        (/\ selective.sent[f] >= n
         /\ f # MaxSelFeeds => selective.sent[MaxSelFeeds] = MaxMsgs)
            ~> Emitted(f, n)

C27_Witness ==
    /\ selective.mode = "gate"
    /\ Len(selective.out) = MaxSelFeeds * MaxMsgs
    /\ selective.out[Len(selective.out)][1] = 1
    /\ \A i \in 1..MaxMsgs : selective.out[i][1] = MaxSelFeeds

\* ------------------------------------------- feeds opened under a reader

\* The steps the program takes by itself once a call was made: promise
\* jobs first, then lock grants, I/O completions and filters.
HotProgram ==
    \/ \E p \in Procs :
        \/ OpenFeedExisting(p)
        \/ OpenFeedCreate(p)
    \/ \E r \in Rids : ReaderStart(r)
    \/ \E p \in Procs, d \in DescIds :
        \/ ~Resumed /\ ~ReaderResumed /\ OpenLockedOpened(p, d)
        \/ ~Resumed /\ ~ReaderResumed /\ OpenConstruct(p, d)
        \/ ~Resumed /\ ~ReaderResumed /\ OpenReady(p, d)
        \/ ~Resumed /\ ~ReaderResumed /\ PersistGet(p, d)
        \/ ~Resumed /\ ~ReaderResumed /\ PersistPut(p, d)
    \/ \E r \in Rids, d \in DescIds :
        \/ ~Resumed /\ ~ReaderResumed /\ ReaderAttached(r, d)
        \/ ~Resumed /\ ~ReaderResumed /\ ReaderDeclined(r, d)
        \/ ~Resumed /\ ~ReaderResumed /\ ReaderAttachFails(r, d)

\* The consumer of r reads a record of the log h.
HotReads(r, h) == ~Resumed /\ ~ReaderResumed /\ ReaderDelivers(r, h)

\* Callers open feeds and make read streams on a store that stays open.
NextHot ==
    \/ \E p \in Procs : CallOpened(p, ReaderCalls)
    \/ \E r \in Rids, f \in Filters : CreateReadStream(r, f)
    \/ HotProgram
    \/ \E r \in Rids, h \in FeedIds : HotReads(r, h)

\* The program's steps are taken when they can be and every consumer keeps
\* reading; when calls are made is free.
SpecHot ==
    /\ InitReaders
    /\ [][NextHot]_vars
    /\ WF_vars(HotProgram)
    /\ \A r \in Rids, h \in FeedIds : WF_vars(HotReads(r, h))

\* C29: when feed is emitted for a log while a reader with an accepting
\* filter is live, that same reader delivers records of the log in the end.
C29_HotAttach ==
    \A r \in Rids, h \in FeedIds :
        (/\ emit.name = "feed"
         /\ desc[emit.d].feed = h
         /\ r \in readers
         /\ reader[r].state = "live"
         /\ reader[r].filter = "all")
            ~> (reader[r].state = "live" /\ h \in reader[r].delivered)

C29_Witness ==
    \E r \in Rids, h \in FeedIds :
        /\ emit.name = "feed"
        /\ desc[emit.d].feed = h
        /\ reader[r].state = "live"
        /\ reader[r].filter = "all"
        /\ reader[r].feeds = {}
        /\ <<r, emit.d>> \in attach

\* --------------------------------------------- a log that never signals

\* The steps of openFeed that the program takes by itself; the completion of
\* the log's ready() is the log's to signal, and is not among them.
StallProgram ==
    \/ \E p \in Procs :
        \/ OpenFeedExisting(p)
        \/ OpenFeedCreate(p)
    \/ \E p \in Procs, d \in DescIds :
        \/ OpenLockedOpened(p, d)
        \/ OpenConstruct(p, d)
        \/ PersistGet(p, d)
        \/ PersistPut(p, d)

\* openFeed callers on a log engine that may never call back: the program's
\* steps are taken when they can be, ready() completes or not.
SpecStall ==
    /\ InitOpenFeed
    /\ [][NextOpenFeed]_vars
    /\ WF_vars(StallProgram)

\* C30: a descriptor open() that waits for the log's ready while holding the
\* descriptor's mutex gives the mutex back in the end, whether or not the
\* log signals.
C30_OpenSettles ==
    \A p \in Procs, d \in DescIds :
        (sub[p][d] = "ready" /\ Holds(dlock[d], p)) ~> ~Holds(dlock[d], p)

\* ------------------------------------------ FeedDescriptor.setMetadata

\* descriptor.setMetadata(m) on a descriptor taken from getDescriptors(): the
\* call up to `await this.lock()`.
SetMetadataCall(p, d, m) ==
    /\ state = OPENED
    /\ \E i \in 1..Len(descriptors) : descriptors[i] = d
    /\ Free(p)
    /\ \A q \in Procs : Free(q) => p <= q
    /\ budget > 0
    /\ budget' = budget - 1
    /\ op' = [op EXCEPT ![p] = [name |-> "setMetadata", path |-> desc[d].path,
                                key |-> 0, meta |-> m]]
    /\ sub' = [sub EXCEPT ![p] = [NoSubs EXCEPT ![d] = "mlock"]]
    /\ last' = [last EXCEPT ![p] = CLOSED]
    /\ dlock' = [dlock EXCEPT ![d] = Acquire(dlock[d], p)]
    /\ Goes(p, "join")
    /\ UNCHANGED <<storeVars, desc, ndesc, feedVars, faults>>
    /\ emit' = NoEvent
    /\ UNCHANGED readerVars

\* The assignment setMetadata makes under the lock.
MetadataSet(old, m) == m

\* The lock is granted: the metadata is replaced and the 'updated' watcher
\* runs _persistDescriptor up to its get (feed-store.js 464-466, 496-498).
SetMetadataLocked(p, d) ==
    /\ sub[p][d] = "mlock"
    /\ Holds(dlock[d], p)
    /\ desc' = [desc EXCEPT ![d].meta = MetadataSet(@, op[p].meta)]
    /\ sub' = [sub EXCEPT ![p][d] = "mget"]
    /\ UNCHANGED <<storeVars, ndesc, dlock, feedVars, pc, op, last, ret, val,
                   budget, faults>>
    /\ emit' = NoEvent
    /\ UNCHANGED readerVars

\* feed-store.js 498-510: the stored record arrived; an equal one is not
\* written again, the watcher returns and setMetadata releases and resolves.
SetMetadataGet(p, d) ==
    /\ sub[p][d] = "mget"
    /\ IndexUp
    /\ IF NeedsPut(index[desc[d].key], d)
       THEN /\ sub' = [sub EXCEPT ![p][d] = "mput"]
            /\ UNCHANGED <<dlock, pc, ret, val>>
       ELSE /\ dlock' = [dlock EXCEPT ![d] = Release(dlock[d])]
            /\ sub' = [sub EXCEPT ![p][d] = "ok"]
            /\ Done(p, "ok", 0)
    /\ UNCHANGED <<storeVars, desc, ndesc, feedVars, op, last, budget, faults>>
    /\ emit' = NoEvent
    /\ UNCHANGED readerVars

\* feed-store.js 509: the record is written, the watcher returns and
\* setMetadata releases and resolves.
SetMetadataPut(p, d) ==
    /\ sub[p][d] = "mput"
    /\ IndexUp
    /\ index' = [index EXCEPT ![desc[d].key] =
                    [path |-> desc[d].path, meta |-> desc[d].meta]]
    /\ dlock' = [dlock EXCEPT ![d] = Release(dlock[d])]
    /\ sub' = [sub EXCEPT ![p][d] = "ok"]
    /\ Done(p, "ok", 0)
    /\ UNCHANGED <<state, descriptors, indexDB, slock, desc, ndesc, feedVars, op,
                   last, budget, faults>>
    /\ emit' = NoEvent
    /\ UNCHANGED readerVars

\* Callers open feeds and set the metadata of the descriptors of the map.
NextMetadata ==
    \/ \E p \in Procs :
        \/ CallOpened(p, OpenCalls)
        \/ OpenFeedExisting(p)
        \/ OpenFeedCreate(p)
    \/ \E p \in Procs, d \in DescIds :
        \/ OpenLockedOpened(p, d)
        \/ OpenConstruct(p, d)
        \/ OpenReady(p, d)
        \/ PersistGet(p, d)
        \/ PersistPut(p, d)
        \/ \E m \in Metas : SetMetadataCall(p, d, m)
        \/ SetMetadataLocked(p, d)
        \/ SetMetadataGet(p, d)
        \/ SetMetadataPut(p, d)

SpecMetadata == InitOpenFeed /\ [][NextMetadata]_vars

\* A setMetadata call of p on d resolves in this step.
MetadataSettles(p, d) ==
    /\ op[p].name = "setMetadata"
    /\ sub[p][d] \in {"mget", "mput"}
    /\ sub'[p][d] = "ok"

\* C31: when setMetadata(m) resolves, the descriptor's metadata is m and the
\* index holds the descriptor's record with metadata m, which is what a
\* store initialized on this storage loads for the path.
C31_MetadataPersisted ==
    [][\A p \in Procs, d \in DescIds :
        MetadataSettles(p, d) =>
            /\ desc'[d].meta = op[p].meta
            /\ index'[desc[d].key] = [path |-> desc[d].path, meta |-> op[p].meta]
            /\ ret'[p] = "ok"]_vars

C31_Witness ==
    \E p \in Procs, d \in DescIds :
        /\ op[p].name = "setMetadata"
        /\ sub[p][d] = "ok"
        /\ Opened(d)
        /\ op[p].meta = 1
        /\ desc[d].meta = 1
        /\ index[desc[d].key].meta = 1

\* C32: when feed is emitted for a descriptor, the index holds a record under
\* that descriptor's key, with the descriptor's metadata: the persist is over
\* before the event.
C32_PersistedBeforeFeed ==
    emit.name = "feed" =>
        /\ index[desc[emit.d].key] # NoRec
        /\ index[desc[emit.d].key].meta = desc[emit.d].meta

\* feed is emitted for a descriptor of path "b", whose record no earlier run
\* wrote.
C32_Witness ==
    /\ emit.name = "feed"
    /\ desc[emit.d].path = "b"
    /\ index[desc[emit.d].key] = [path |-> "b", meta |-> desc[emit.d].meta]

\* The open() of p on d fails in this step.
OpenFails(p, d) ==
    /\ Kind(op[p].name) = "open"
    /\ sub[p][d] \in {"lock", "ready", "pget", "pput"}
    /\ sub'[p][d] = "err"

\* The open() of p on d succeeds in this step.
OpenSucceeds(p, d) ==
    /\ Kind(op[p].name) = "open"
    /\ sub[p][d] \in {"lock", "ready", "pget", "pput"}
    /\ sub'[p][d] = "ok"

\* C33: a failing open() writes nothing to the index, and a record appears
\* under a key only in a step in which the open() of a descriptor of that
\* key succeeds; so after a failed open the key has a record only if an
\* earlier open that succeeded, in this run or the one that filled the
\* storage, wrote it.
C33_FailedOpenNoRecord ==
    [][/\ \A p \in Procs, d \in DescIds : OpenFails(p, d) => index' = index
       /\ \A k \in Keys :
            (index'[k] # index[k] /\ index'[k] # NoRec) =>
                \E p \in Procs, d \in DescIds :
                    OpenSucceeds(p, d) /\ desc[d].key = k]_vars

\* An open() failed while the record was to be read or written, and the
\* descriptor's key has no record.
C33_Witness ==
    \E p \in Procs, d \in DescIds :
        /\ op[p].name = "openFeed"
        /\ sub[p][d] = "err"
        /\ desc[d].feed # 0
        /\ feedOpened[desc[d].feed]
        /\ desc[d].key # 0
        /\ index[desc[d].key] = NoRec

\* _persistDescriptor's put for d, made for p, completes in this step.
Writes(p, d) ==
    /\ sub[p][d] \in {"pput", "mput"}
    /\ sub'[p][d] = "ok"

\* C34: a record is written only over no record or over one of other
\* metadata; an open() writes only when no record is stored, so opening again
\* and openFeed with other metadata options on a path of the map write
\* nothing; and the metadata of a descriptor changes in setMetadata only.
C34_PutOnlyWhenNeeded ==
    [][/\ \A p \in Procs, d \in DescIds :
            /\ Writes(p, d) =>
                \/ index[desc[d].key] = NoRec
                \/ index[desc[d].key].meta # desc[d].meta
            /\ (Writes(p, d) /\ Kind(op[p].name) = "open") =>
                index[desc[d].key] = NoRec
       /\ \A k \in Keys :
            index'[k] # index[k] => \E p \in Procs, d \in DescIds :
                Writes(p, d) /\ desc[d].key = k
       /\ \A d \in DescIds :
            (desc[d] # NoDesc /\ desc'[d].meta # desc[d].meta) =>
                \E p \in Procs :
                    op[p].name = "setMetadata" /\ sub[p][d] = "mlock"]_vars

\* openFeed with other metadata options resolved on a path of the map: the
\* descriptor and the record keep the metadata they had.
C34_Witness ==
    \E p \in Procs, d \in DescIds :
        /\ op[p].name = "openFeed"
        /\ sub[p][d] = "ok"
        /\ pc[p] = "done"
        /\ op[p].meta = 1
        /\ desc[d].meta = 0
        /\ index[desc[d].key] = [path |-> desc[d].path, meta |-> 0]

\* A read loop of the reader is alive: in a pass, at the evaluator, or
\* suspended on a timer or on the has-data promise.
LoopAlive == selective.pc \in {"pass", "eval", "yield", "wait", "timer"}

\* C35: _reading is true exactly while a read loop is alive, and a _read()
\* that arrives while _reading is true sets _needsData and touches nothing
\* else of the reader, so that no second loop starts.
C35_OnePass ==
    /\ [](selective.kind # "none" => (selective.reading <=> LoopAlive))
    /\ [][(/\ selective.kind # "none"
           /\ selective.reading
           /\ selective.stream = selective'.stream
           /\ selective' # selective)
            => (\/ selective' = [selective EXCEPT !.needsData = TRUE]
                \/ selective'.pc # selective.pc
                \/ selective'.cur # selective.cur
                \/ selective'.buffer # selective.buffer)]_vars

\* C36: no reader holds two streams of one feed, whatever the order of the
\* initial attachment, the feed events and the answers of the filter.
C36_AttachedOnce ==
    \A r \in Rids : reader[r].twice = {}

\* C37: when the store is opened and every call has settled, each record of
\* the index is the record of a descriptor of the map.
C37_RecordsInMap ==
    (state = OPENED /\ \A p \in Procs : Free(p)) =>
        \A k \in StoredKeys :
            \E i \in 1..Len(descriptors) : desc[descriptors[i]].key = k

\* C38: while the store is closed, no log that openFeed made is open.
C38_ClosedNoOpenFeed ==
    state = CLOSED =>
        \A h \in 1..nfeeds : ~(feedOpened[h] /\ ~feedClosed[h])

\* The log h is open.
LogOpen(h) == feedOpened[h] /\ ~feedClosed[h]

\* C38 amended: when close() completes, a log that is open belongs to a
\* descriptor that close() did not find in the map, one that
\* deleteDescriptor had taken out; the logs of the descriptors of the map
\* are closed.
C38_ClosedRegisteredFeeds ==
    [][\A p \in Procs :
        Closes(p) =>
            \A h \in 1..nfeeds :
                LogOpen(h)' => sub[p][feedDesc[h]] = "-"]_vars

\* close() resolved and the store is closed while the log of a descriptor
\* deleted before is open.
C38_Witness ==
    \E p \in Procs, h \in 1..nfeeds :
        /\ op[p].name = "close"
        /\ pc[p] = "done" /\ ret[p] = "ok"
        /\ emit.name = "closed"
        /\ state = CLOSED
        /\ LogOpen(h)
        /\ sub[p][feedDesc[h]] = "-"

\* --------------------------------------------- calls that wait for ready

\* The steps the program takes by itself once a call was made; the listing
\* of the trie succeeds or fails.
WaitersProgram ==
    \E p \in Procs :
        \/ InitializeLockedOpened(p)
        \/ InitializeLocked(p)
        \/ InitializeListed(p)
        \/ InitializeFailed(p)
        \/ OpenFeedExisting(p)
        \/ OpenFeedCreate(p)
        \/ \E d \in DescIds :
            \/ OpenLockedOpened(p, d)
            \/ OpenConstruct(p, d)
            \/ OpenReady(p, d)
            \/ PersistGet(p, d)
            \/ PersistPut(p, d)

\* Callers that call initialize and openFeed on a store just constructed.
NextWaiters ==
    \/ \E p \in Procs :
        \/ InitializeOpened(p)
        \/ InitializeCall(p)
        \/ CallClosed(p, ReaderCalls)
        \/ CallOpened(p, ReaderCalls)
        \/ CallOpening(p, ReaderCalls)
    \/ WaitersProgram

\* The program's steps are taken when they can be; when calls are made is
\* free.
SpecWaiters == Init /\ [][NextWaiters]_vars /\ WF_vars(WaitersProgram)

\* C39: a call that waits for the store to become ready stops waiting in the
\* end, whether initialize() succeeds or fails.
C39_WaitersSettle ==
    \A p \in Procs : (pc[p] = "wait") ~> (pc[p] # "wait")

\* ------------------------------------------ demand while the loop waits

\* The consumer changes what the evaluator looks at (the set of allowed
\* feeds of part_001 41-52): from now on every message is admitted.
SelAllow ==
    /\ selective.mode = "gate"
    /\ SelSet([selective EXCEPT !.mode = "allow"])

NextDemand ==
    \/ NextGate
    \/ SelAllow

\* The reader's own steps are taken when they can be, and the consumer
\* keeps asking for data; when batches arrive and when the consumer allows
\* the feeds is free.
SpecDemand ==
    /\ InitGate
    /\ [][NextDemand]_vars
    /\ WF_vars(SelRead)
    /\ WF_vars(SelNext)
    /\ WF_vars(\E full \in BOOLEAN : SelAccept(full))
    /\ WF_vars(SelReject)
    /\ WF_vars(SelPassEnd)
    /\ WF_vars(SelYielded)
    /\ WF_vars(SelWoken)

\* C40: when the loop waits for the has-data promise, the consumer has asked
\* for data, and a buffer holds a message the evaluator now admits, the
\* message comes out in the end, with or without another batch arriving.
C40_DemandWakes ==
    \A f \in SelFeeds :
        (/\ selective.pc = "wait"
         /\ ~selective.wake
         /\ selective.needsData
         /\ selective.mode = "allow"
         /\ selective.buffer[f] # << >>)
            ~> (selective.buffer[f] = << >>)

====
